---- MODULE Spec2Model ----
(***************************************************************************)
(* Chunked, resumable upload pipeline of server/routes.ts: the session     *)
(* store (one directory and session.json per uploadId), the chunk receiver,*)
(* the finalizer, the Blob Store (Supabase) hand-off and the attachment    *)
(* table.  Every HTTP handler is one action per run-to-completion segment: *)
(* a handler body without `await` is a single step, a handler with `await` *)
(* is split at its suspension points, so that requests interleave exactly  *)
(* where the single-threaded runtime lets them.                            *)
(*                                                                         *)
(* Input domain: the :chunkIndex path parameter ranges over decimal        *)
(* non-negative integers (beyond the session's last chunk included).       *)
(***************************************************************************)
EXTENDS Integers, Sequences, FiniteSets, TLC

\* ---------------------------------------------------------------- bounds
MaxSessions == 1      \* init requests that create a session
MaxPuts == 2          \* chunk requests received
MaxFinalizes == 2     \* finalize requests received
MaxChunkIdx == 2      \* largest :chunkIndex a request carries

\* ------------------------------------------------------------- constants
chunkSize == 10 * 1024 * 1024

\* A JavaScript number: a finite integer or NaN (the result of coercing a
\* non-numeric declared size).
Num(n) == [num |-> TRUE, val |-> n]
NaN == [num |-> FALSE, val |-> 0]

MiB == 1024 * 1024

\* Declared sizes init accepts (all truthy): 10 MiB (one full chunk), 15 MiB
\* (a full chunk and a shorter one), a negative number and a non-numeric
\* string.
FileSizes == {Num(10 * MiB), Num(15 * MiB), Num(-1), NaN}
FileNames == {"a.mp4"}

\* A mimeType string, as the sequence of its tokens ("video/mp4" is
\* <<"video", "/", "mp4">>); the empty sequence is "" or an absent field.
video_mp4 == <<"video", "/", "mp4">>
octet_stream == <<"application", "/", "octet-stream">>
\* The bytes request r carries: r bytes of value r.  The server never looks
\* into the bytes, so tagging every body with its request number loses no
\* behaviour and makes every upload (and every overwrite) distinguishable.
Bytes(r) == [i \in 1 .. r |-> r]
ChunkIdxs == 0 .. MaxChunkIdx
UploadIds == 1 .. MaxSessions

\* Request bodies of init: the complete ones, and one with each required
\* field missing ("" / 0 / 0 after body parsing, all falsy).
InitBodies ==
    [fileName : FileNames, fileSize : FileSizes, mimeType : {<<>>},
     submissionId : {1}]
    \cup {[fileName |-> "a.mp4", fileSize |-> Num(10 * MiB),
           mimeType |-> video_mp4, submissionId |-> 1],
          [fileName |-> "", fileSize |-> Num(10 * MiB), mimeType |-> <<>>,
           submissionId |-> 1],
          [fileName |-> "a.mp4", fileSize |-> Num(0), mimeType |-> <<>>,
           submissionId |-> 1],
          [fileName |-> "a.mp4", fileSize |-> Num(10 * MiB), mimeType |-> <<>>,
           submissionId |-> 0]}

VARIABLES
    sessionJson,   \* uploadId -> parsed session.json, for the sessions on disk
    chunkFiles,    \* <<uploadId, chunkIdx>> -> bytes of chunks/<uploadId>/chunk_<i>
    uploadDir,     \* file name -> bytes of the files in uploads/
    bucket,        \* storagePath -> bytes of the objects in the Supabase bucket
    bucketThumbs,  \* finalize requests whose thumbnail object is in the bucket
    attachments,   \* rows of submissionAttachments, in insertion order
    putReqs,       \* chunk requests, in order of arrival
    finReqs,       \* finalize requests, in order of arrival
    resp,          \* the HTTP response sent by the last step, if it sent one
    supabase,      \* whether the Supabase client is configured
    created,       \* number of uploadIds generated so far
    submissions,   \* rows of clientSubmissions, in insertion order
    bucketUploads, \* path -> bytes of the objects under uploads/ in the bucket
    paths,         \* number of uploads/ storage paths generated so far
    upReqs,        \* single-request uploads, in order of arrival
    portal,        \* the client portal's submit flow (ClientPortal.tsx)
    storeLists,    \* the lists of the client store's board, with their cards
    dbCards,       \* rows of the cards table, by id
    fetches,       \* card requests of the store in flight, and their answers
    tempSeq,       \* number of temporary card ids generated so far
    cardSeq,       \* last serial id of the cards table
    listSeq,       \* last serial id of the lists table
    tempLists,     \* number of temporary list ids generated so far
    staleIds,      \* card object -> the id it had when it left the store
    localUser,     \* localStorage's "user" item
    pathname,      \* location.pathname of the browser
    view,          \* the page rendered for it, "pending" before the render
    users,         \* rows of the users table, by id
    authReqs       \* register, login and password requests, in order of arrival

\* The direct-upload state: submissions, the uploads/ prefix of the bucket,
\* the single-request uploads in flight and the portal's submit flow.
directVars == <<submissions, bucketUploads, paths, upReqs, portal>>

\* The state of the other subsystems, which the chunked upload leaves alone.
\* The kanban state: the client store (lib/store.ts) and the cards table.
storeVars ==
    <<storeLists, dbCards, fetches, tempSeq, cardSeq, listSeq, tempLists,
      staleIds>>

\* The browser: the stored user and the router (App.tsx).
routeVars == <<localUser, pathname, view>>

\* The accounts: the users table and the requests on it.
authVars == <<users, authReqs>>

others == <<directVars, storeVars, routeVars, authVars>>

vars == <<sessionJson, chunkFiles, uploadDir, bucket, bucketThumbs, attachments,
          putReqs, finReqs, resp, supabase, created, others>>

\* --------------------------------------------------------------- helpers
Put(f, k, v) == [x \in DOMAIN f \cup {k} |-> IF x = k THEN v ELSE f[x]]
Remove(f, S) == [x \in DOMAIN f \ S |-> f[x]]
Range(s) == {s[i] : i \in DOMAIN s}

\* Math.ceil(a / b) for b > 0.
Ceil(a, b) == -((-a) \div b)

\* fs.existsSync(path.join(chunksDir, uploadId, "session.json"))
existsSync(uploadId) == uploadId \in DOMAIN sessionJson

\* No URL (undefined / null).
NoUrl == [store |-> "none", name |-> 0]

Response(op, req, uploadId, status) ==
    [op |-> op, req |-> req, uploadId |-> uploadId, status |-> status,
     uploadedChunks |-> <<>>, count |-> 0, chunkSize |-> 0, fileName |-> "",
     fileSize |-> Num(0),
     chunkIndex |-> -1, error |-> "", attachment |-> 0,
     submission |-> 0, path |-> 0, publicUrl |-> NoUrl]

NoResponse == Response("none", 0, 0, 0)

\* Ids of the client store: `temp-...` until the server's id replaces it.
TempId(n) == [temp |-> TRUE, n |-> n]
PersistedId(n) == [temp |-> FALSE, n |-> n]

\* localStorage.getItem("user"): null when the item is absent.
NoItem == [kind |-> "absent", role |-> ""]

\* The portal before a submit: no file chosen, nothing requested.
PortalIdle ==
    [pc |-> "idle", failedAt |-> "", fileType |-> <<>>, submission |-> 0,
     path |-> 0, publicUrl |-> NoUrl, putStatus |-> 0, linkCalls |-> 0,
     linked |-> 0]

\* ------------------------------------------------------------------ init
Init ==
    /\ sessionJson = <<>>
    /\ chunkFiles = <<>>
    /\ uploadDir = <<>>
    /\ bucket = <<>>
    /\ bucketThumbs = {}
    /\ attachments = <<>>
    /\ putReqs = <<>>
    /\ finReqs = <<>>
    /\ resp = NoResponse
    /\ supabase \in BOOLEAN
    /\ created = 0
    /\ submissions = <<>>
    /\ bucketUploads = <<>>
    /\ paths = 0
    /\ upReqs = <<>>
    /\ portal = PortalIdle
    /\ storeLists = <<[id |-> PersistedId(1), cards |-> <<>>],
                      [id |-> PersistedId(2), cards |-> <<>>]>>
    /\ dbCards = <<>>
    /\ fetches = {}
    /\ tempSeq = 0
    /\ cardSeq = 0
    /\ listSeq = 2
    /\ tempLists = 0
    /\ staleIds = <<>>
    /\ localUser = NoItem
    /\ pathname = "/"
    /\ view = "pending"
    /\ users = <<>>
    /\ authReqs = <<>>

\* POST /api/chunked-upload/init.  A missing body field is "" / Num(0) / 0,
\* all falsy.  The uploadId is fresh: the next unused one.
\* The validation without the test of submissionId.
Falsy_noSubmission(fileName, fileSize, submissionId) ==
    fileName = "" \/ fileSize = Num(0)

\* !fileName || !fileSize || !submissionId
Falsy(fileName, fileSize, submissionId) ==
    fileName = "" \/ fileSize = Num(0) \/ submissionId = 0

InitUpload(fileName, fileSize, mimeType, submissionId) ==
    LET uploadId == created + 1
    IN  IF Falsy(fileName, fileSize, submissionId)
        THEN /\ resp' = Response("init", 0, 0, 400)
             /\ UNCHANGED <<sessionJson, chunkFiles, uploadDir, bucket,
                            bucketThumbs, attachments, putReqs, finReqs,
                            supabase, created, others>>
        ELSE /\ created' = uploadId
             /\ sessionJson' = Put(sessionJson, uploadId,
                    [uploadId |-> uploadId, fileName |-> fileName,
                     fileSize |-> fileSize,
                     mimeType |-> IF mimeType # <<>> THEN mimeType
                                  ELSE octet_stream,
                     submissionId |-> submissionId,
                     uploadedChunks |-> <<>>])
             /\ resp' = [Response("init", 0, uploadId, 200)
                            EXCEPT !.chunkSize = 10 * 1024 * 1024]
             /\ UNCHANGED <<chunkFiles, uploadDir, bucket, bucketThumbs,
                            attachments, putReqs, finReqs, supabase, others>>

\* GET /api/chunked-upload/:uploadId/status
GetStatus(uploadId) ==
    /\ IF ~existsSync(uploadId)
       THEN resp' = Response("status", 0, uploadId, 404)
       ELSE LET sessionData == sessionJson[uploadId]
            IN  resp' = [Response("status", 0, uploadId, 200) EXCEPT
                            !.uploadedChunks = sessionData.uploadedChunks,
                            !.fileName = sessionData.fileName,
                            !.fileSize = sessionData.fileSize]
    /\ UNCHANGED <<sessionJson, chunkFiles, uploadDir, bucket, bucketThumbs,
                   attachments, putReqs, finReqs, supabase, created, others>>

\* ------------------------------------------------------- chunk receiver
\* Name of the temporary file multer's disk storage gives request r.
TmpName(r) == <<"tmp", r>>

\* upload.single("chunk"): the multipart body is received and, when it has
\* a "chunk" part, stored under a unique name in uploads/ before the handler
\* body runs.
PutChunkReceive(uploadId, chunkIdx, hasFile) ==
    /\ Len(putReqs) < MaxPuts
    /\ LET r == Len(putReqs) + 1
       IN  /\ putReqs' = Append(putReqs,
                  [uploadId |-> uploadId, chunkIdx |-> chunkIdx,
                   hasFile |-> hasFile, pc |-> "received", status |-> 0])
           /\ uploadDir' = IF hasFile THEN Put(uploadDir, TmpName(r), Bytes(r))
                           ELSE uploadDir
    /\ resp' = NoResponse
    /\ UNCHANGED <<sessionJson, chunkFiles, bucket, bucketThumbs, attachments,
                   finReqs, supabase, created, others>>

\* Array.prototype.includes
includes(arr, x) == \E i \in DOMAIN arr : arr[i] = x

\* arr.sort((a, b) => a - b) on an array of integers: insertion sort.
RECURSIVE insertSorted(_, _)
insertSorted(arr, x) ==
    IF arr = <<>> THEN <<x>>
    ELSE IF x - Head(arr) < 0 THEN <<x>> \o arr
    ELSE <<Head(arr)>> \o insertSorted(Tail(arr), x)

RECURSIVE sort(_)
sort(arr) == IF arr = <<>> THEN <<>>
             ELSE insertSorted(sort(SubSeq(arr, 1, Len(arr) - 1)), arr[Len(arr)])

\* pushChunk without the includes() test.
pushChunk_noIncludes(uploadedChunks, chunkIdx) ==
    sort(Append(uploadedChunks, chunkIdx))

\* pushChunk without the sort.
pushChunk_noSort(uploadedChunks, chunkIdx) ==
    IF ~includes(uploadedChunks, chunkIdx)
    THEN Append(uploadedChunks, chunkIdx)
    ELSE uploadedChunks

\* pushChunk starting a new array with the index received.
pushChunk_replace(uploadedChunks, chunkIdx) == <<chunkIdx>>

\* The update of sessionData.uploadedChunks in the chunk handler.
pushChunk(uploadedChunks, chunkIdx) ==
    IF ~includes(uploadedChunks, chunkIdx)
    THEN sort(Append(uploadedChunks, chunkIdx))
    ELSE uploadedChunks

\* The chunk handler testing req.file before the session.
chunkStatus_fileFirst(uploadId, hasFile) ==
    IF ~hasFile THEN 400
    ELSE IF ~existsSync(uploadId) THEN 404
    ELSE 200

\* The status the chunk handler answers with: the session check comes first,
\* then the check of req.file.
chunkStatus(uploadId, hasFile) ==
    IF ~existsSync(uploadId) THEN 404
    ELSE IF ~hasFile THEN 400
    ELSE 200

\* session.json as it was when request r arrived: without the indices that
\* requests received after r have added since (a read placed before the
\* upload middleware instead of after it).
readSession_atArrival(r, uploadId) ==
    LET later == {putReqs[q].chunkIdx : q \in {k \in DOMAIN putReqs :
                    k > r /\ putReqs[k].uploadId = uploadId
                          /\ putReqs[k].status = 200}}
        earlier == {putReqs[q].chunkIdx : q \in {k \in DOMAIN putReqs :
                    k < r /\ putReqs[k].uploadId = uploadId
                          /\ putReqs[k].status = 200}}
        Kept(i) == i \notin later \ earlier
    IN  [sessionJson[uploadId] EXCEPT !.uploadedChunks = SelectSeq(@, Kept)]

\* JSON.parse(fs.readFileSync(sessionPath, "utf-8")) in the handler of
\* request r, after the chunk file was moved.
readSession(r, uploadId) == sessionJson[uploadId]

\* The handler body of PUT /api/chunked-upload/:uploadId/chunk/:chunkIndex:
\* synchronous, hence one step.
PutChunkHandle(r) ==
    /\ r \in DOMAIN putReqs
    /\ putReqs[r].pc = "received"
    /\ LET uploadId == putReqs[r].uploadId
           chunkIdx == putReqs[r].chunkIdx
           status == chunkStatus(uploadId, putReqs[r].hasFile)
       IN  /\ putReqs' = [putReqs EXCEPT ![r].pc = "done", ![r].status = status]
           /\ IF status # 200
              THEN /\ resp' = Response("chunk", r, uploadId, status)
                   /\ UNCHANGED <<sessionJson, chunkFiles, uploadDir>>
              ELSE LET sessionData == readSession(r, uploadId)
                       uploadedChunks ==
                           pushChunk(sessionData.uploadedChunks, chunkIdx)
                   IN  /\ chunkFiles' = Put(chunkFiles, <<uploadId, chunkIdx>>,
                                            uploadDir[TmpName(r)])
                       /\ uploadDir' = Remove(uploadDir, {TmpName(r)})
                       /\ sessionJson' = [sessionJson EXCEPT ![uploadId] =
                               [sessionData EXCEPT
                                   !.uploadedChunks = uploadedChunks]]
                       /\ resp' = [Response("chunk", r, uploadId, 200) EXCEPT
                                       !.count = Len(uploadedChunks),
                                       !.chunkIndex = chunkIdx]
    /\ UNCHANGED <<bucket, bucketThumbs, attachments, finReqs, supabase,
                   created, others>>

\* ------------------------------------------------------------ finalizer
\* JavaScript's a < b on numbers: false when either side is NaN.
Lt(a, b) == a.num /\ b.num /\ a.val < b.val

\* Math.floor in place of Math.ceil.
expectedChunksOf_floor(fileSize) ==
    IF fileSize.num THEN Num(fileSize.val \div chunkSize) ELSE NaN

\* Math.ceil(fileSize / chunkSize)
expectedChunksOf(fileSize) ==
    IF fileSize.num THEN Num(Ceil(fileSize.val, chunkSize)) ELSE NaN

\* The merge loop writing each chunk in front of what is already written.
RECURSIVE mergeChunks_prepend(_, _, _, _)
mergeChunks_prepend(uploadId, i, expectedChunks, written) ==
    IF ~Lt(Num(i), expectedChunks)
    THEN [ok |-> TRUE, missing |-> -1, data |-> written]
    ELSE IF <<uploadId, i>> \notin DOMAIN chunkFiles
    THEN [ok |-> FALSE, missing |-> i, data |-> written]
    ELSE mergeChunks_prepend(uploadId, i + 1, expectedChunks,
                             chunkFiles[<<uploadId, i>>] \o written)

\* The merge loop: for (i = 0; i < expectedChunks; i++), appending chunk_i to
\* the write stream, or stopping at the first chunk file that is not there.
RECURSIVE mergeChunks(_, _, _, _)
mergeChunks(uploadId, i, expectedChunks, written) ==
    IF ~Lt(Num(i), expectedChunks)
    THEN [ok |-> TRUE, missing |-> -1, data |-> written]
    ELSE IF <<uploadId, i>> \notin DOMAIN chunkFiles
    THEN [ok |-> FALSE, missing |-> i, data |-> written]
    ELSE mergeChunks(uploadId, i + 1, expectedChunks,
                     written \o chunkFiles[<<uploadId, i>>])

FinalName(r) == <<"final", r>>
LocalUrl(r) == [store |-> "uploads", name |-> r]
PublicUrl(r) == [store |-> "bucket", name |-> r]

\* The local file removed whether or not the upload returned an error.
unlinkFinal_always(r, uploadError) == Remove(uploadDir, {FinalName(r)})

\* fs.unlinkSync(finalPath), reached only when the upload returned no error.
unlinkFinal(r, uploadError) ==
    IF ~uploadError THEN Remove(uploadDir, {FinalName(r)}) ELSE uploadDir

\* A cleanup that leaves session.json behind.
rmSessionJson_keep(uploadId) == sessionJson

\* A cleanup that removes session.json only.
rmChunkFiles_keep(uploadId) == chunkFiles

\* A cleanup that removes the chunk files of every session.
rmChunkFiles_all(uploadId) == Remove(chunkFiles, DOMAIN chunkFiles)

\* fs.rmSync(sessionDir, { recursive: true, force: true }): session.json ...
rmSessionJson(uploadId) == Remove(sessionJson, {uploadId})

\* ... and every chunk file of the directory.
rmChunkFiles(uploadId) ==
    Remove(chunkFiles, {k \in DOMAIN chunkFiles : k[1] = uploadId})

FinDone(r, status) == [finReqs EXCEPT ![r].pc = "done", ![r].status = status]

\* String.prototype.startsWith and String.prototype.includes, on token
\* strings.
startsWith(str, prefix) ==
    /\ Len(prefix) <= Len(str)
    /\ SubSeq(str, 1, Len(prefix)) = prefix

strIncludes(str, sub) ==
    \E i \in 1 .. Len(str) - Len(sub) + 1 :
        SubSeq(str, i, i + Len(sub) - 1) = sub

\* The classification with the document test placed first.
fileTypeOf_documentFirst(mimeType) ==
    IF strIncludes(mimeType, <<"pdf">>) \/ strIncludes(mimeType, <<"document">>)
    THEN "document"
    ELSE IF startsWith(mimeType, <<"video", "/">>) THEN "video"
    ELSE IF startsWith(mimeType, <<"audio", "/">>) THEN "audio"
    ELSE IF startsWith(mimeType, <<"image", "/">>) THEN "image"
    ELSE "other"

\* let fileType = "other"; if (mimeType.startsWith("video/")) ... else if ...
fileTypeOf(mimeType) ==
    IF startsWith(mimeType, <<"video", "/">>) THEN "video"
    ELSE IF startsWith(mimeType, <<"audio", "/">>) THEN "audio"
    ELSE IF startsWith(mimeType, <<"image", "/">>) THEN "image"
    ELSE IF strIncludes(mimeType, <<"pdf">>)
            \/ strIncludes(mimeType, <<"document">>) THEN "document"
    ELSE "other"

\* The thumbnail of finalize request r: its file in uploads/, the URL of that
\* file and the URL of its object in the bucket.
ThumbName(r) == <<"thumb", r>>
ThumbLocalUrl(r) == [store |-> "uploads", name |-> r]
ThumbPublicUrl(r) == [store |-> "bucket", name |-> r]

\* finalize up to its first await: session lookup, completeness check and
\* merge, all synchronous.  For a video the first await is the thumbnail
\* generation, for any other file the Blob Store hand-off or the insert.
FinalizeMerge(uploadId) ==
    /\ Len(finReqs) < MaxFinalizes
    /\ LET r == Len(finReqs) + 1
           req == [uploadId |-> uploadId, pc |-> "done", status |-> 0,
                   fileName |-> "", fileSize |-> Num(0), mimeType |-> <<>>,
                   submissionId |-> 0, fileUrl |-> LocalUrl(r),
                   thumbnailUrl |-> NoUrl, uploadError |-> FALSE]
       IN  IF ~existsSync(uploadId)
           THEN /\ finReqs' = Append(finReqs, [req EXCEPT !.status = 404])
                /\ resp' = Response("finalize", r, uploadId, 404)
                /\ UNCHANGED uploadDir
           ELSE LET sessionData == sessionJson[uploadId]
                    expectedChunks == expectedChunksOf(sessionData.fileSize)
                    merged == mergeChunks(uploadId, 0, expectedChunks, <<>>)
                IN  IF Lt(Num(Len(sessionData.uploadedChunks)), expectedChunks)
                    THEN /\ finReqs' = Append(finReqs, [req EXCEPT !.status = 400])
                         /\ resp' = [Response("finalize", r, uploadId, 400)
                                        EXCEPT !.error = "incomplete"]
                         /\ UNCHANGED uploadDir
                    ELSE IF ~merged.ok
                    THEN \* writeStream.close() with writes pending: the file
                         \* is left in uploads/ with all or none of them flushed
                         /\ finReqs' = Append(finReqs, [req EXCEPT !.status = 400])
                         /\ resp' = [Response("finalize", r, uploadId, 400)
                                        EXCEPT !.error = "missing",
                                               !.chunkIndex = merged.missing]
                         /\ \E flushed \in {<<>>, merged.data} :
                               uploadDir' = Put(uploadDir, FinalName(r), flushed)
                    ELSE /\ finReqs' = Append(finReqs, [req EXCEPT
                                !.pc = IF fileTypeOf(sessionData.mimeType) = "video"
                                       THEN "thumbnail" ELSE "merged",
                                !.fileName = sessionData.fileName,
                                !.fileSize = sessionData.fileSize,
                                !.mimeType = sessionData.mimeType,
                                !.submissionId = sessionData.submissionId])
                         /\ resp' = NoResponse
                         /\ uploadDir' = Put(uploadDir, FinalName(r), merged.data)
    /\ UNCHANGED <<sessionJson, chunkFiles, bucket, bucketThumbs, attachments,
                   putReqs, supabase, created, others>>

\* A thumbnail failure that rejects instead of resolving false.
thumbnailFailed_throws(r) ==
    /\ finReqs' = FinDone(r, 500)
    /\ resp' = Response("finalize", r, finReqs[r].uploadId, 500)

\* generateVideoThumbnail resolved false (ffmpeg failed): thumbnailUrl stays
\* undefined and finalize goes on.
thumbnailFailed(r) ==
    /\ finReqs' = [finReqs EXCEPT ![r].pc = "merged"]
    /\ resp' = NoResponse

\* if (fileType === "video") { success = await generateVideoThumbnail(...);
\* if (success && fs.existsSync(thumbPath)) thumbnailUrl = ... }
FinalizeThumbnail(r, success) ==
    /\ r \in DOMAIN finReqs
    /\ finReqs[r].pc = "thumbnail"
    /\ IF success
       THEN /\ uploadDir' = Put(uploadDir, ThumbName(r), <<0>>)
            /\ finReqs' = [finReqs EXCEPT ![r].pc = "merged",
                                          ![r].thumbnailUrl = ThumbLocalUrl(r)]
            /\ resp' = NoResponse
       ELSE /\ thumbnailFailed(r)
            /\ UNCHANGED uploadDir
    /\ UNCHANGED <<sessionJson, chunkFiles, bucket, bucketThumbs, attachments,
                   putReqs, supabase, created, others>>

\* if (supabase) { ensureBucketExists(); storage.upload(...) ... }: the
\* upload stores the object, returns an error, or throws.  With a thumbnail
\* to upload, the handler awaits once more before it unlinks the local file.
FinalizeUpload(r, outcome) ==
    /\ r \in DOMAIN finReqs
    /\ finReqs[r].pc = "merged"
    /\ supabase
    /\ CASE outcome = "stored" ->
              /\ bucket' = Put(bucket, r, uploadDir[FinalName(r)])
              /\ IF finReqs[r].thumbnailUrl # NoUrl
                    /\ ThumbName(r) \in DOMAIN uploadDir
                 THEN /\ finReqs' = [finReqs EXCEPT ![r].pc = "thumbUpload",
                                                    ![r].fileUrl = PublicUrl(r)]
                      /\ UNCHANGED uploadDir
                 ELSE /\ finReqs' = [finReqs EXCEPT ![r].pc = "uploaded",
                                                    ![r].fileUrl = PublicUrl(r)]
                      /\ uploadDir' = unlinkFinal(r, FALSE)
              /\ resp' = NoResponse
         [] outcome = "error" ->
              /\ finReqs' = [finReqs EXCEPT ![r].pc = "uploaded",
                                            ![r].uploadError = TRUE]
              /\ resp' = NoResponse
              /\ uploadDir' = unlinkFinal(r, TRUE)
              /\ UNCHANGED bucket
         [] outcome = "throw" ->
              /\ finReqs' = FinDone(r, 500)
              /\ resp' = Response("finalize", r, finReqs[r].uploadId, 500)
              /\ UNCHANGED <<bucket, uploadDir>>
    /\ UNCHANGED <<sessionJson, chunkFiles, bucketThumbs, attachments, putReqs,
                   supabase, created, others>>

\* The upload of the thumbnail, then fs.unlinkSync(finalPath): the thumbnail
\* is stored (and its local file removed), the upload returns an error (the
\* local thumbnail and its URL stay), or it throws.
FinalizeThumbUpload(r, outcome) ==
    /\ r \in DOMAIN finReqs
    /\ finReqs[r].pc = "thumbUpload"
    /\ CASE outcome = "stored" ->
              /\ bucketThumbs' = bucketThumbs \cup {r}
              /\ uploadDir' = Remove(uploadDir, {ThumbName(r), FinalName(r)})
              /\ finReqs' = [finReqs EXCEPT ![r].pc = "uploaded",
                                  ![r].thumbnailUrl = ThumbPublicUrl(r)]
              /\ resp' = NoResponse
         [] outcome = "error" ->
              /\ uploadDir' = Remove(uploadDir, {FinalName(r)})
              /\ finReqs' = [finReqs EXCEPT ![r].pc = "uploaded"]
              /\ resp' = NoResponse
              /\ UNCHANGED bucketThumbs
         [] outcome = "throw" ->
              /\ finReqs' = FinDone(r, 500)
              /\ resp' = Response("finalize", r, finReqs[r].uploadId, 500)
              /\ UNCHANGED <<bucketThumbs, uploadDir>>
    /\ UNCHANGED <<sessionJson, chunkFiles, bucket, attachments, putReqs,
                   supabase, created, others>>

\* An insert that replaces the row the submission already has.
insertRow_replace(values) ==
    IF \E i \in DOMAIN attachments :
          attachments[i].submissionId = values.submissionId
    THEN [i \in DOMAIN attachments |->
             IF attachments[i].submissionId = values.submissionId
             THEN [id |-> attachments[i].id,
                   submissionId |-> values.submissionId,
                   fileName |-> values.fileName, fileUrl |-> values.fileUrl,
                   thumbnailUrl |-> values.thumbnailUrl,
                   fileType |-> values.fileType, fileSize |-> values.fileSize,
                   mimeType |-> values.mimeType]
             ELSE attachments[i]]
    ELSE Append(attachments,
           [id |-> Len(attachments) + 1, submissionId |-> values.submissionId,
            fileName |-> values.fileName, fileUrl |-> values.fileUrl,
            thumbnailUrl |-> values.thumbnailUrl, fileType |-> values.fileType,
            fileSize |-> values.fileSize, mimeType |-> values.mimeType])

\* db.insert(submissionAttachments).values(values): a new row with the next
\* serial id; no row is updated or deleted.
insertRow(values) ==
    Append(attachments,
           [id |-> Len(attachments) + 1, submissionId |-> values.submissionId,
            fileName |-> values.fileName, fileUrl |-> values.fileUrl,
            thumbnailUrl |-> values.thumbnailUrl, fileType |-> values.fileType,
            fileSize |-> values.fileSize, mimeType |-> values.mimeType])

\* A catch block that removes the session directory's session.json.
catchInsert_cleanup(uploadId) == rmSessionJson(uploadId)

\* catch (error) { console.error(...); res.status(500)... }: the session
\* directory is left as it is.
catchInsert(uploadId) == sessionJson

\* db.insert(submissionAttachments).values({...}).returning(): the row is
\* inserted, or the insert throws; it throws for a fileSize that is no
\* integer (file_size is an integer column).
FinalizeInsert(r, inserted) ==
    /\ r \in DOMAIN finReqs
    /\ \/ finReqs[r].pc = "uploaded"
       \/ finReqs[r].pc = "merged" /\ ~supabase
    /\ inserted =>
          \/ FinalName(r) \in DOMAIN uploadDir
          \/ finReqs[r].fileSize.num
    /\ LET req == finReqs[r]
           actualFileSize == IF FinalName(r) \in DOMAIN uploadDir
                             THEN Num(Len(uploadDir[FinalName(r)]))
                             ELSE req.fileSize
       IN  IF inserted
           THEN /\ attachments' = insertRow(
                      [submissionId |-> req.submissionId,
                       fileName |-> req.fileName,
                       fileUrl |-> req.fileUrl,
                       thumbnailUrl |-> req.thumbnailUrl,
                       fileType |-> fileTypeOf(req.mimeType),
                       fileSize |-> actualFileSize,
                       mimeType |-> req.mimeType])
                /\ finReqs' = [finReqs EXCEPT ![r].pc = "inserted"]
                /\ resp' = NoResponse
                /\ UNCHANGED sessionJson
           ELSE /\ finReqs' = FinDone(r, 500)
                /\ resp' = Response("finalize", r, req.uploadId, 500)
                /\ sessionJson' = catchInsert(req.uploadId)
                /\ UNCHANGED attachments
    /\ UNCHANGED <<chunkFiles, uploadDir, bucket, bucketThumbs,
                   putReqs, supabase, created, others>>

\* fs.rmSync(sessionDir, {recursive, force}); res.json(attachment)
FinalizeCleanup(r) ==
    /\ r \in DOMAIN finReqs
    /\ finReqs[r].pc = "inserted"
    /\ LET uploadId == finReqs[r].uploadId
       IN  /\ sessionJson' = rmSessionJson(uploadId)
           /\ chunkFiles' = rmChunkFiles(uploadId)
           /\ resp' = [Response("finalize", r, uploadId, 200) EXCEPT
                 !.attachment = CHOOSE id \in 1 .. Len(attachments) :
                                    attachments[id].fileUrl = finReqs[r].fileUrl]
    /\ finReqs' = FinDone(r, 200)
    /\ UNCHANGED <<uploadDir, bucket, bucketThumbs, attachments, putReqs,
                   supabase, created, others>>

\* ===================================================================
\* Direct upload: submissions, signed upload URLs, the attachment link API,
\* the single-request upload and the client portal's submit flow
\* ===================================================================
MaxLinks == 1         \* attachment rows present when a link request is taken
MaxPaths == 1         \* upload-url requests taken from other clients
MaxUploads == 1       \* single-request uploads received

application_pdf == <<"application", "/", "pdf">>
image_png == <<"image", "/", "png">>

\* A URL the client made up, the public URL of an uploads/ path of the
\* bucket, and the ids of the submissions in the table.
ClientUrl(n) == [store |-> "client", name |-> n]
UploadsUrl(path) == [store |-> "bucketUploads", name |-> path]
SubmissionIds == {submissions[i].id : i \in DOMAIN submissions}

\* mimeType.split('/')[0] on a token string whose part before the first "/"
\* is one token.
splitFirst(mimeType) ==
    IF mimeType = <<>> \/ Head(mimeType) = "/" THEN "" ELSE Head(mimeType)

directFrame ==
    UNCHANGED <<sessionJson, chunkFiles, uploadDir, bucket, bucketThumbs,
                putReqs, finReqs, supabase, created, storeVars, routeVars,
                authVars>>

\* POST /api/client-submissions: 400 without a clientId, else the row is
\* inserted (serial id) or the insert throws.
CreateSubmissionHandler(clientId, inserted) ==
    IF clientId = 0
    THEN /\ resp' = Response("submission", 0, 0, 400)
         /\ UNCHANGED submissions
    ELSE IF ~inserted
    THEN /\ resp' = Response("submission", 0, 0, 500)
         /\ UNCHANGED submissions
    ELSE LET id == Len(submissions) + 1
         IN  /\ submissions' = Append(submissions,
                                      [id |-> id, clientId |-> clientId])
             /\ resp' = [Response("submission", 0, 0, 200)
                            EXCEPT !.submission = id]

\* POST /api/upload-url with createSignedUploadUrl: 400 without fileName or
\* fileType; null (500) without a Supabase client or on a storage error; 500
\* when the call throws; else a fresh uploads/ path, its signed URL and its
\* public URL.
UploadUrlHandler(fileName, fileType, outcome) ==
    IF fileName = "" \/ fileType = <<>>
    THEN /\ resp' = Response("upload-url", 0, 0, 400)
         /\ UNCHANGED paths
    ELSE IF ~supabase \/ outcome # "ok"
    THEN /\ resp' = Response("upload-url", 0, 0, 500)
         /\ UNCHANGED paths
    ELSE /\ paths' = paths + 1
         /\ resp' = [Response("upload-url", 0, 0, 200) EXCEPT
                        !.path = paths + 1,
                        !.publicUrl = UploadsUrl(paths + 1)]

\* fileType || mimeType?.split('/')[0] || 'unknown'
linkFileType(fileType, mimeType) ==
    IF fileType # "" THEN fileType
    ELSE IF splitFirst(mimeType) # "" THEN splitFirst(mimeType)
    ELSE "unknown"

\* A link handler that refuses a fileUrl not issued by upload-url.
linkChecks_issued(body) ==
    body.fileName = "" \/ body.fileUrl = NoUrl
    \/ body.fileUrl \notin {UploadsUrl(n) : n \in 1 .. paths}

\* if (!fileName || !fileUrl) return res.status(400)
linkChecks(body) == body.fileName = "" \/ body.fileUrl = NoUrl

\* POST /api/client-submissions/:id/attachments: 400 without fileName or
\* fileUrl; else the row is inserted with the body's values, and the insert
\* throws (500) when :id names no submission (foreign key).
LinkAttachmentHandler(id, body) ==
    IF linkChecks(body)
    THEN /\ resp' = Response("link", 0, 0, 400)
         /\ UNCHANGED attachments
    ELSE IF id \notin SubmissionIds
    THEN /\ resp' = Response("link", 0, 0, 500)
         /\ UNCHANGED attachments
    ELSE /\ attachments' = insertRow(
               [submissionId |-> id,
                fileName |-> body.fileName,
                fileUrl |-> body.fileUrl,
                thumbnailUrl |-> NoUrl,
                fileType |-> linkFileType(body.fileType, body.mimeType),
                fileSize |-> body.fileSize,
                mimeType |-> IF body.mimeType # <<>> THEN body.mimeType
                             ELSE octet_stream])
         /\ resp' = [Response("link", 0, 0, 200) EXCEPT
                        !.submission = id,
                        !.attachment = Len(attachments) + 1]

\* Link requests of any client: bodies with and without each of the fields
\* (an absent fileSize is 0 after `fileSize || 0`).
LinkBodies ==
    {[fileName |-> "a.pdf", fileUrl |-> ClientUrl(1), fileType |-> "",
      fileSize |-> Num(5), mimeType |-> application_pdf],
     [fileName |-> "a.png", fileUrl |-> UploadsUrl(1), fileType |-> "image",
      fileSize |-> Num(7), mimeType |-> image_png],
     [fileName |-> "a", fileUrl |-> ClientUrl(2), fileType |-> "",
      fileSize |-> Num(0), mimeType |-> <<>>],
     [fileName |-> "", fileUrl |-> ClientUrl(1), fileType |-> "image",
      fileSize |-> Num(5), mimeType |-> image_png],
     [fileName |-> "a.png", fileUrl |-> NoUrl, fileType |-> "image",
      fileSize |-> Num(5), mimeType |-> image_png]}

LinkAttachment(id, body) ==
    /\ Len(attachments) < MaxLinks
    /\ LinkAttachmentHandler(id, body)
    /\ directFrame
    /\ UNCHANGED <<submissions, bucketUploads, paths, upReqs, portal>>

UploadUrl(fileName, fileType, outcome) ==
    /\ paths < MaxPaths
    /\ UploadUrlHandler(fileName, fileType, outcome)
    /\ directFrame
    /\ UNCHANGED <<attachments, submissions, bucketUploads, upReqs, portal>>

\* POST /api/client-submissions/:id/upload up to the insert: 400 without a
\* file; uploadToSupabase returns null (no client, storage error) or throws,
\* both answered 500; else the object is stored under a fresh uploads/ path.
SimpleUploadStore(id, hasFile, mimetype, outcome) ==
    /\ Len(upReqs) < MaxUploads
    /\ LET r == Len(upReqs) + 1
           req == [id |-> id, mimetype |-> mimetype, size |-> Num(r),
                   url |-> NoUrl, pc |-> "done", status |-> 0]
       IN  IF ~hasFile
           THEN /\ upReqs' = Append(upReqs, [req EXCEPT !.status = 400])
                /\ resp' = Response("upload", r, 0, 400)
                /\ UNCHANGED <<bucketUploads, paths>>
           ELSE IF ~supabase \/ outcome # "stored"
           THEN /\ upReqs' = Append(upReqs, [req EXCEPT !.status = 500])
                /\ resp' = Response("upload", r, 0, 500)
                /\ UNCHANGED <<bucketUploads, paths>>
           ELSE /\ paths' = paths + 1
                /\ bucketUploads' = Put(bucketUploads, paths + 1, Bytes(r))
                /\ upReqs' = Append(upReqs, [req EXCEPT
                                 !.pc = "stored",
                                 !.url = UploadsUrl(paths + 1)])
                /\ resp' = NoResponse
    /\ directFrame
    /\ UNCHANGED <<attachments, submissions, portal>>

\* ... and its insert: fileType is req.file.mimetype.split('/')[0].
SimpleUploadInsert(r) ==
    /\ r \in DOMAIN upReqs
    /\ upReqs[r].pc = "stored"
    /\ LET req == upReqs[r]
       IN  IF req.id \notin SubmissionIds
           THEN /\ upReqs' = [upReqs EXCEPT ![r].pc = "done", ![r].status = 500]
                /\ resp' = Response("upload", r, 0, 500)
                /\ UNCHANGED attachments
           ELSE /\ attachments' = insertRow(
                      [submissionId |-> req.id,
                       fileName |-> "a.pdf",
                       fileUrl |-> req.url,
                       thumbnailUrl |-> NoUrl,
                       fileType |-> splitFirst(req.mimetype),
                       fileSize |-> req.size,
                       mimeType |-> req.mimetype])
                /\ upReqs' = [upReqs EXCEPT ![r].pc = "done", ![r].status = 200]
                /\ resp' = [Response("upload", r, 0, 200) EXCEPT
                               !.submission = req.id,
                               !.attachment = Len(attachments) + 1]
    /\ directFrame
    /\ UNCHANGED <<submissions, bucketUploads, paths, portal>>

\* ------------------------------------------------- ClientPortal.tsx submit
\* The file the portal user picked: its name, size and bytes.
PortalFileName == "a.pdf"
PortalFile == Bytes(3)

PortalFailed(stage) == [portal EXCEPT !.pc = "failed", !.failedAt = stage]

\* Step 1: POST /api/client-submissions with the user's id.
PortalSubmit(fileType, inserted) ==
    /\ portal.pc = "idle"
    /\ CreateSubmissionHandler(1, inserted)
    /\ portal' = IF resp'.status = 200
                 THEN [portal EXCEPT !.pc = "target", !.fileType = fileType,
                                     !.submission = resp'.submission]
                 ELSE [PortalFailed("submission") EXCEPT !.fileType = fileType]
    /\ directFrame
    /\ UNCHANGED <<attachments, bucketUploads, paths, upReqs>>

\* Step 2: POST /api/upload-url with file.type || "application/octet-stream".
PortalRequestTarget(outcome) ==
    /\ portal.pc = "target"
    /\ UploadUrlHandler(PortalFileName,
                        IF portal.fileType # <<>> THEN portal.fileType
                        ELSE octet_stream, outcome)
    /\ portal' = IF resp'.status = 200
                 THEN [portal EXCEPT !.pc = "put", !.path = resp'.path,
                                     !.publicUrl = resp'.publicUrl]
                 ELSE PortalFailed("target")
    /\ directFrame
    /\ UNCHANGED <<attachments, submissions, bucketUploads, upReqs>>

\* A portal that goes on to link whatever the PUT returned.
portalAfterPut_ignoresStatus(status) ==
    [portal EXCEPT !.pc = "link", !.putStatus = status]

\* xhr.onload: resolve on 200 <= status < 300, reject otherwise; xhr.onerror
\* (status 0): reject.
portalAfterPut(status) ==
    IF status >= 200 /\ status < 300
    THEN [portal EXCEPT !.pc = "link", !.putStatus = status]
    ELSE [PortalFailed("put") EXCEPT !.putStatus = status]

\* The XHR PUT of the file to the signed URL: stored and answered 200,
\* refused with 403, lost before it was stored (status 0), or stored with the
\* answer lost (status 0).
PortalPut(outcome) ==
    /\ portal.pc = "put"
    /\ bucketUploads' = IF outcome \in {"ok", "answerLost"}
                        THEN Put(bucketUploads, portal.path, PortalFile)
                        ELSE bucketUploads
    /\ portal' = portalAfterPut(CASE outcome = "ok" -> 200
                                  [] outcome = "refused" -> 403
                                  [] OTHER -> 0)
    /\ resp' = NoResponse
    /\ directFrame
    /\ UNCHANGED <<attachments, submissions, paths, upReqs>>

\* Step 3: POST /api/client-submissions/:id/attachments with the publicUrl.
PortalLinkBody ==
    [fileName |-> PortalFileName, fileUrl |-> portal.publicUrl,
     fileType |-> splitFirst(portal.fileType), fileSize |-> Num(Len(PortalFile)),
     mimeType |-> portal.fileType]

PortalLink ==
    /\ portal.pc = "link"
    /\ LinkAttachmentHandler(portal.submission, PortalLinkBody)
    /\ portal' = IF resp'.status = 200
                 THEN [portal EXCEPT !.pc = "done", !.linkCalls = @ + 1,
                                     !.linked = resp'.attachment]
                 ELSE [PortalFailed("link") EXCEPT !.linkCalls = @ + 1]
    /\ directFrame
    /\ UNCHANGED <<submissions, bucketUploads, paths, upReqs>>

\* ===================================================================
\* Kanban cards: the client store (lib/store.ts) and the card API
\* ===================================================================
MaxCards == 2         \* cards created by addCard and duplicateCard
MaxLists == 1         \* lists created by addList
MaxFetches == 2       \* requests of the user's operations in flight at a time

\* A moveCard target that is no list of the board before addList, nor after
\* the server's id has replaced it.
GhostListId == TempId(1)

\* A request field left out of the body, and one sent as null (parseInt of a
\* temporary id is NaN, which JSON.stringify writes as null).
Undefined == -1
Null == 0

storeFrame ==
    UNCHANGED <<sessionJson, chunkFiles, uploadDir, bucket, bucketThumbs,
                attachments, putReqs, finReqs, resp, supabase, created,
                directVars, routeVars, authVars>>

\* board.lists.find((l) => l.id === listId): the index of the list, 0 if none.
findList(listId) ==
    IF \E i \in DOMAIN storeLists : storeLists[i].id = listId
    THEN CHOOSE i \in DOMAIN storeLists :
            /\ storeLists[i].id = listId
            /\ \A k \in 1 .. i - 1 : storeLists[k].id # listId
    ELSE 0

\* list.cards.findIndex((c) => c.id === cardId), 0 if none.
findIndex(cards, cardId) ==
    IF \E j \in DOMAIN cards : cards[j].id = cardId
    THEN CHOOSE j \in DOMAIN cards :
            /\ cards[j].id = cardId
            /\ \A k \in 1 .. j - 1 : cards[k].id # cardId
    ELSE 0

\* The first list holding the card, 0 if none.
findHolder(cardId) ==
    IF \E i \in DOMAIN storeLists : findIndex(storeLists[i].cards, cardId) # 0
    THEN CHOOSE i \in DOMAIN storeLists :
            /\ findIndex(storeLists[i].cards, cardId) # 0
            /\ \A k \in 1 .. i - 1 : findIndex(storeLists[k].cards, cardId) = 0
    ELSE 0

StoreCards ==
    UNION {{storeLists[i].cards[j] : j \in DOMAIN storeLists[i].cards} :
              i \in DOMAIN storeLists}

StoreCardIds == {card.id : card \in StoreCards}

StoreListIds == {storeLists[i].id : i \in DOMAIN storeLists}

\* card.id read through a reference to the card object `key`: the id it has
\* in the store, or the one it had when it left the store.
idOf(key) ==
    IF \E card \in StoreCards : card.key = key
    THEN (CHOOSE card \in StoreCards : card.key = key).id
    ELSE staleIds[key]

\* parseInt(id) of a list id, as it is sent: null for a temporary id.
parseListId(listId) == IF listId.temp THEN Null ELSE listId.n

Request(kind, card, listId, position) ==
    [kind |-> kind, card |-> card, listId |-> listId, position |-> position,
     saved |-> 0]

\* syncCard up to the fetch: POST /api/cards for a card with a temporary id
\* in a list with a numeric id; nothing otherwise.
syncCard(card) ==
    IF card.id.temp /\ ~card.listId.temp
    THEN {Request("POST", card.key, card.listId.n, card.order)}
    ELSE {}

\* order: list.cards.length
newOrder(cards) == Len(cards)

\* Store.addList(boardId, title) on a board with a numeric id
AddList ==
    /\ tempLists < MaxLists
    /\ Cardinality(fetches) < MaxFetches
    /\ storeLists' = Append(storeLists,
                            [id |-> TempId(tempLists + 1), cards |-> <<>>])
    /\ fetches' = fetches \cup
          {Request("POST list", tempLists + 1, Undefined, Len(storeLists))}
    /\ tempLists' = tempLists + 1
    /\ UNCHANGED <<dbCards, tempSeq, cardSeq, listSeq, staleIds>>
    /\ storeFrame

\* POST /api/lists: the row is inserted and returned.
ServerCreateList(req) ==
    /\ req \in fetches /\ req.kind = "POST list" /\ req.saved = 0
    /\ listSeq' = listSeq + 1
    /\ fetches' = (fetches \ {req}) \cup {[req EXCEPT !.saved = listSeq + 1]}
    /\ UNCHANGED <<storeLists, dbCards, tempSeq, cardSeq, tempLists, staleIds>>
    /\ storeFrame

\* list.cards.forEach(card => { if (card.id.startsWith('temp-c'))
\*     card.listId = list.id; ... })
cascade(cards, listId) ==
    [j \in DOMAIN cards |->
        IF cards[j].id.temp THEN [cards[j] EXCEPT !.listId = listId]
        ELSE cards[j]]

\* addList's then: the list still in the store takes the server's id, and the
\* cards with a temporary id that it holds are given that id and synced.
ListSynced(req) ==
    /\ req \in fetches /\ req.kind = "POST list" /\ req.saved # 0
    /\ LET i == findList(TempId(req.card))
           id == PersistedId(req.saved)
           cards == cascade(storeLists[i].cards, id)
       IN  IF i = 0
           THEN /\ UNCHANGED storeLists
                /\ fetches' = fetches \ {req}
           ELSE /\ storeLists' = [storeLists EXCEPT ![i].id = id,
                                                    ![i].cards = cards]
                /\ fetches' = (fetches \ {req}) \cup
                      UNION {syncCard(cards[j]) : j \in DOMAIN cards}
    /\ UNCHANGED <<dbCards, tempSeq, cardSeq, listSeq, tempLists, staleIds>>
    /\ storeFrame

\* Store.addCard(listId, title)
AddCard(listId) ==
    /\ tempSeq < MaxCards
    /\ Cardinality(fetches) < MaxFetches
    /\ LET i == findList(listId)
           newCard == [id |-> TempId(tempSeq + 1), key |-> tempSeq + 1,
                       listId |-> listId, title |-> 0,
                       order |-> newOrder(storeLists[i].cards)]
       IN  /\ i # 0
           /\ storeLists' = [storeLists EXCEPT ![i].cards = Append(@, newCard)]
           /\ fetches' = fetches \cup syncCard(newCard)
    /\ tempSeq' = tempSeq + 1
    /\ UNCHANGED <<dbCards, cardSeq, listSeq, tempLists, staleIds>>
    /\ storeFrame

\* Store.duplicateCard(cardId); a title is the number of " (cópia)" it ends in.
DuplicateCard(cardId) ==
    /\ tempSeq < MaxCards
    /\ Cardinality(fetches) < MaxFetches
    /\ LET i == findHolder(cardId)
           originalCard == storeLists[i].cards[findIndex(storeLists[i].cards, cardId)]
           duplicatedCard == [originalCard EXCEPT
                                 !.id = TempId(tempSeq + 1),
                                 !.key = tempSeq + 1,
                                 !.title = @ + 1,
                                 !.order = newOrder(storeLists[i].cards)]
       IN  /\ i # 0
           /\ storeLists' = [storeLists EXCEPT ![i].cards = Append(@, duplicatedCard)]
           /\ fetches' = fetches \cup syncCard(duplicatedCard)
    /\ tempSeq' = tempSeq + 1
    /\ UNCHANGED <<dbCards, cardSeq, listSeq, tempLists, staleIds>>
    /\ storeFrame

\* Store.updateCard(cardId, { title }): the card is replaced by a copy with
\* the new title (a new object, here its key moved on by MaxCards), with a PUT
\* of the title for a card the server knows.
UpdateCard(cardId) ==
    /\ Cardinality(fetches) < MaxFetches
    /\ LET i == findHolder(cardId)
           cardIndex == findIndex(storeLists[i].cards, cardId)
           original == storeLists[i].cards[cardIndex]
       IN  /\ i # 0
           /\ original.key <= MaxCards
           /\ storeLists' = [storeLists EXCEPT ![i].cards[cardIndex] =
                                [original EXCEPT !.title = 0,
                                                 !.key = @ + MaxCards]]
           /\ staleIds' = Put(staleIds, original.key, original.id)
    /\ fetches' = IF ~cardId.temp
                  THEN fetches \cup {Request("PUT", cardId.n, Undefined, Undefined)}
                  ELSE fetches
    /\ UNCHANGED <<dbCards, tempSeq, cardSeq, listSeq, tempLists>>
    /\ storeFrame

\* Array.prototype.splice(index, 1)
splice(cards, index) ==
    SubSeq(cards, 1, index - 1) \o SubSeq(cards, index + 1, Len(cards))

\* moveCard on the lists: out of the source list, and onto the end of the
\* target list when there is one.
moveCard(cardId, newListId) ==
    LET i == findHolder(cardId)
        cardIndex == findIndex(storeLists[i].cards, cardId)
        removed == [storeLists EXCEPT ![i].cards = splice(@, cardIndex)]
        t == findList(newListId)
    IN  IF t = 0 THEN removed
        ELSE [removed EXCEPT ![t].cards =
                 Append(@, [storeLists[i].cards[cardIndex] EXCEPT
                               !.listId = newListId])]

\* Store.moveCard(cardId, newListId), with a PUT of the new list and position
\* for a card the server knows that reached a target list.
MoveCard(cardId, newListId) ==
    /\ Cardinality(fetches) < MaxFetches
    /\ LET i == findHolder(cardId)
           cardToMove == storeLists[i].cards[findIndex(storeLists[i].cards, cardId)]
           t == findList(newListId)
       IN  /\ i # 0
           /\ storeLists[i].id # newListId
           /\ storeLists' = moveCard(cardId, newListId)
           /\ staleIds' = IF cardId \in {card.id : card \in StoreCards'}
                          THEN staleIds
                          ELSE Put(staleIds, cardToMove.key, cardId)
           /\ fetches' =
                 IF t # 0 /\ ~cardId.temp
                 THEN fetches \cup {Request("PUT", cardId.n, parseListId(newListId),
                                            Len(storeLists'[t].cards) - 1)}
                 ELSE fetches
    /\ UNCHANGED <<dbCards, tempSeq, cardSeq, listSeq, tempLists>>
    /\ storeFrame

\* Store.deleteCard(cardId): filtered out of every list, with a DELETE for a
\* card the server knows.
DeleteCard(cardId) ==
    /\ Cardinality(fetches) < MaxFetches
    /\ cardId \in StoreCardIds
    /\ storeLists' = [i \in DOMAIN storeLists |->
          [storeLists[i] EXCEPT !.cards =
              SelectSeq(@, LAMBDA c : c.id # cardId)]]
    /\ staleIds' = Put(staleIds,
                       (CHOOSE card \in StoreCards : card.id = cardId).key, cardId)
    /\ fetches' = IF ~cardId.temp
                  THEN fetches \cup {Request("DELETE", cardId.n, Undefined, Undefined)}
                  ELSE fetches
    /\ UNCHANGED <<dbCards, tempSeq, cardSeq, listSeq, tempLists>>
    /\ storeFrame

\* POST /api/cards: the row is inserted with position || 0 and returned.
ServerCreateCard(req) ==
    /\ req \in fetches /\ req.kind = "POST" /\ req.saved = 0
    /\ cardSeq' = cardSeq + 1
    /\ dbCards' = Put(dbCards, cardSeq + 1,
                      [listId |-> req.listId, position |-> req.position])
    /\ fetches' = (fetches \ {req}) \cup {[req EXCEPT !.saved = cardSeq + 1]}
    /\ UNCHANGED <<storeLists, tempSeq, listSeq, tempLists, staleIds>>
    /\ storeFrame

\* syncCard's then: getCard(card.id) through the card object the request was
\* made for; the card found takes the server's id.
CardSynced(req) ==
    /\ req \in fetches /\ req.kind = "POST" /\ req.saved # 0
    /\ LET i == findHolder(idOf(req.card))
       IN  storeLists' =
              IF i = 0 THEN storeLists
              ELSE [storeLists EXCEPT
                       ![i].cards[findIndex(storeLists[i].cards, idOf(req.card))].id =
                           PersistedId(req.saved)]
    /\ fetches' = fetches \ {req}
    /\ UNCHANGED <<dbCards, tempSeq, cardSeq, listSeq, tempLists, staleIds>>
    /\ storeFrame

\* PUT /api/cards/:id: the fields of the body are set on the row, when there
\* is such a row; a null listId makes the update throw (list_id is NOT NULL).
ServerUpdateCard(req) ==
    /\ req \in fetches /\ req.kind = "PUT"
    /\ dbCards' =
          IF req.card \in DOMAIN dbCards /\ req.listId # Null
          THEN [dbCards EXCEPT ![req.card] =
                   [@ EXCEPT !.listId = IF req.listId = Undefined
                                        THEN @ ELSE req.listId,
                             !.position = IF req.position = Undefined
                                          THEN @ ELSE req.position]]
          ELSE dbCards
    /\ fetches' = fetches \ {req}
    /\ UNCHANGED <<storeLists, tempSeq, cardSeq, listSeq, tempLists, staleIds>>
    /\ storeFrame

\* DELETE /api/cards/:id
ServerDeleteCard(req) ==
    /\ req \in fetches /\ req.kind = "DELETE"
    /\ dbCards' = Remove(dbCards, {req.card})
    /\ fetches' = fetches \ {req}
    /\ UNCHANGED <<storeLists, tempSeq, cardSeq, listSeq, tempLists, staleIds>>
    /\ storeFrame

\* The cards of a board with two lists the server knows.
NextStore ==
    \/ \E listId \in StoreListIds : AddCard(listId)
    \/ \E cardId \in StoreCardIds : DuplicateCard(cardId)
    \/ \E cardId \in StoreCardIds, newListId \in StoreListIds \cup {GhostListId} :
          MoveCard(cardId, newListId)
    \/ \E cardId \in StoreCardIds : DeleteCard(cardId)
    \/ \E req \in fetches : ServerCreateCard(req)
    \/ \E req \in fetches : CardSynced(req)
    \/ \E req \in fetches : ServerUpdateCard(req)
    \/ \E req \in fetches : ServerDeleteCard(req)

SpecStore == Init /\ [][NextStore]_vars

\* The requests taken by the server and the answers taken by the store.
StoreResponses ==
    \/ \E req \in fetches : ServerCreateList(req)
    \/ \E req \in fetches : ListSynced(req)
    \/ \E req \in fetches : ServerCreateCard(req)
    \/ \E req \in fetches : CardSynced(req)
    \/ \E req \in fetches : ServerUpdateCard(req)

ListCards == 1        \* cards created next to an addList

\* A list added to the board, and a card of the board meanwhile.
NextLists ==
    \/ AddList
    \/ \E listId \in StoreListIds : tempSeq < ListCards /\ AddCard(listId)
    \/ \E cardId \in StoreCardIds : UpdateCard(cardId)
    \/ \E cardId \in StoreCardIds, newListId \in StoreListIds :
          MoveCard(cardId, newListId)
    \/ StoreResponses

SpecLists == Init /\ [][NextLists]_vars

\* Every issued request is answered, and every answer reaches its callback.
SpecListsLive ==
    /\ SpecLists
    /\ WF_vars(\E req \in fetches : ServerCreateList(req))
    /\ WF_vars(\E req \in fetches : ListSynced(req))
    /\ WF_vars(\E req \in fetches : ServerCreateCard(req))
    /\ WF_vars(\E req \in fetches : CardSynced(req))
    /\ WF_vars(\E req \in fetches : ServerUpdateCard(req))

\* ===================================================================
\* The browser's router and its protected routes (App.tsx)
\* ===================================================================
\* The "user" item as JSON.parse sees it: absent, the empty string, text that
\* is no JSON, the JSON null, or an object with its role ("" for none).
StoredUser(role) == [kind |-> "object", role |-> role]
UserItems ==
    {NoItem, [kind |-> "empty", role |-> ""], [kind |-> "invalid", role |-> ""],
     [kind |-> "null", role |-> ""]}
    \cup {StoredUser(role) : role \in {"", "admin", "client", "manager"}}

\* <Routes>: the element of each path; any other path is NotFound.
Routes ==
    [path \in {"/", "/login", "/client-portal", "/kanban", "/favorites",
               "/recent", "/board/1", "/board/1/calendar"} |->
        CASE path = "/" -> [requiredRole |-> "", page |-> "AuthRedirect"]
          [] path = "/login" -> [requiredRole |-> "", page |-> "Login"]
          [] path = "/client-portal" ->
                [requiredRole |-> "client", page |-> "ClientPortal"]
          [] path = "/kanban" -> [requiredRole |-> "admin", page |-> "AllBoards"]
          [] path = "/favorites" -> [requiredRole |-> "admin", page |-> "Favorites"]
          [] path = "/recent" -> [requiredRole |-> "admin", page |-> "Recent"]
          [] path = "/board/1" -> [requiredRole |-> "admin", page |-> "BoardView"]
          [] OTHER -> [requiredRole |-> "admin", page |-> "BoardCalendarView"]]

Paths == DOMAIN Routes \cup {"/nowhere"}

Navigate(to, removeItem) == [render |-> FALSE, to |-> to, removeItem |-> removeItem]
Children == [render |-> TRUE, to |-> "", removeItem |-> FALSE]

\* user.role === "admin" ? "/kanban" : "/client-portal"
targetPath(role) == IF role = "admin" THEN "/kanban" ELSE "/client-portal"

\* function ProtectedRoute({ children, requiredRole })
ProtectedRoute(userStr, requiredRole, path) ==
    IF userStr.kind \in {"absent", "empty"} THEN Navigate("/login", FALSE)
    ELSE IF userStr.kind = "invalid" THEN Navigate("/login", TRUE)
    ELSE IF userStr.kind = "null" \/ userStr.role = ""
    THEN Navigate("/login", TRUE)
    ELSE IF requiredRole # "" /\ userStr.role # requiredRole
    THEN IF path = targetPath(userStr.role) THEN Children
         ELSE Navigate(targetPath(userStr.role), FALSE)
    ELSE Children

\* function AuthRedirect()
AuthRedirect(userStr) ==
    IF userStr.kind \in {"absent", "empty"} THEN Navigate("/login", FALSE)
    ELSE IF userStr.kind = "invalid" THEN Navigate("/login", TRUE)
    ELSE IF userStr.kind = "null" \/ userStr.role = ""
    THEN Navigate("/login", TRUE)
    ELSE Navigate(targetPath(userStr.role), FALSE)

routeFrame ==
    UNCHANGED <<sessionJson, chunkFiles, uploadDir, bucket, bucketThumbs,
                attachments, putReqs, finReqs, resp, supabase, created,
                directVars, storeVars, authVars>>

\* The location changes: a link, the address bar, window.location.href.
Visit(path) ==
    /\ pathname' = path
    /\ view' = "pending"
    /\ UNCHANGED localUser
    /\ routeFrame

\* The router renders the element of the current path.
Render ==
    /\ view = "pending"
    /\ IF pathname \notin DOMAIN Routes
       THEN view' = "NotFound" /\ UNCHANGED <<pathname, localUser>>
       ELSE IF Routes[pathname].page = "Login"
       THEN view' = "Login" /\ UNCHANGED <<pathname, localUser>>
       ELSE LET route == Routes[pathname]
                result == IF route.page = "AuthRedirect"
                          THEN AuthRedirect(localUser)
                          ELSE ProtectedRoute(localUser, route.requiredRole, pathname)
            IN  /\ view' = IF result.render THEN route.page ELSE "pending"
                /\ pathname' = IF result.render THEN pathname ELSE result.to
                /\ localUser' = IF result.removeItem THEN NoItem ELSE localUser
    /\ routeFrame

\* Login.tsx onSuccess: the answer of a login is stored and the browser sent
\* to the page of its role; the server's roles are admin and client.
LoginStored(role) ==
    /\ view = "Login"
    /\ localUser' = StoredUser(role)
    /\ pathname' = targetPath(role)
    /\ view' = "pending"
    /\ routeFrame

\* KanbanColumn.tsx handleLogout
Logout ==
    /\ view \in {"AllBoards", "Favorites", "Recent", "BoardView", "BoardCalendarView"}
    /\ localUser' = NoItem
    /\ pathname' = "/login"
    /\ view' = "pending"
    /\ routeFrame

\* The item written from outside the pages: another tab, another version of
\* the application, the browser's tools.
StorageWritten(userStr) ==
    /\ localUser' = userStr
    /\ localUser' # localUser
    /\ UNCHANGED <<pathname, view>>
    /\ routeFrame

NextRoutes ==
    \/ \E path \in Paths : Visit(path)
    \/ Render
    \/ \E role \in {"admin", "client"} : LoginStored(role)
    \/ Logout
    \/ \E userStr \in UserItems : StorageWritten(userStr)

SpecRoutes == Init /\ [][NextRoutes]_vars

\* ===================================================================
\* Accounts: register, login, client-login, change-password
\* ===================================================================
MaxAuthReqs == 3      \* account requests received

\* Strings as sequences of characters.  Emails: "a@x.c", with an upper-case
\* letter, with a leading space, and one that is no address.
email_lower == <<"a", "@", "x", ".", "c">>
email_upper == <<"A", "@", "x", ".", "c">>
email_space == <<" ", "a", "@", "x", ".", "c">>
email_bad == <<"a", ".", "c">>

\* Passwords: two of four characters and one of three.
pw_1234 == <<"1", "2", "3", "4">>
pw_5678 == <<"5", "6", "7", "8">>
pw_123 == <<"1", "2", "3">>

\* String.prototype.toLowerCase
toLowerCase(str) == [i \in DOMAIN str |-> IF str[i] = "A" THEN "a" ELSE str[i]]

\* String.prototype.trim
RECURSIVE trimStart(_)
trimStart(str) ==
    IF str # <<>> /\ Head(str) = " " THEN trimStart(Tail(str)) ELSE str

RECURSIVE trimEnd(_)
trimEnd(str) ==
    IF str # <<>> /\ str[Len(str)] = " "
    THEN trimEnd(SubSeq(str, 1, Len(str) - 1)) ELSE str

trim(str) == trimEnd(trimStart(str))

\* rawEmail.toLowerCase().trim()
normalize(rawEmail) == trim(toLowerCase(rawEmail))

\* /^[^\s@]+@[^\s@]+\.[^\s@]+$/.test(email)
emailRegex(email) ==
    /\ \A i \in DOMAIN email : email[i] # " "
    /\ Cardinality({i \in DOMAIN email : email[i] = "@"}) = 1
    /\ LET at == CHOOSE i \in DOMAIN email : email[i] = "@"
       IN  /\ at > 1
           /\ \E dot \in at + 2 .. Len(email) - 1 : email[dot] = "."

\* bcrypt.hash(password, 10) and bcrypt.compare(password, hash)
bcryptHash(password) == [bcrypt |-> password]

\* A compare that accepts every password.
bcryptCompare_any(password, hash) == TRUE

bcryptCompare(password, hash) == hash.bcrypt = password

\* db.select().from(users).where(eq(users.email, email)): the ids found.
byEmail(email) == {id \in DOMAIN users : users[id].email = email}

AuthReq(op) ==
    [op |-> op, pc |-> "done", status |-> 0, email |-> <<>>, password |-> <<>>,
     role |-> "", userId |-> 0, newPassword |-> <<>>, read |-> bcryptHash(<<>>),
     existed |-> FALSE, seen |-> Len(users), id |-> 0, returned |-> "",
     inserted |-> FALSE]

authFrame ==
    UNCHANGED <<sessionJson, chunkFiles, uploadDir, bucket, bucketThumbs,
                attachments, putReqs, finReqs, resp, supabase, created,
                directVars, storeVars, routeVars>>

\* POST /api/auth/register up to the answer of the select; a missing field
\* is the empty string.
RegisterReceive(email, password, name, role) ==
    /\ Len(authReqs) < MaxAuthReqs
    /\ LET req == [AuthReq("register") EXCEPT !.email = email,
                      !.password = password, !.role = role]
       IN  authReqs' = Append(authReqs,
              IF email = <<>> \/ password = <<>> \/ name = ""
              THEN [req EXCEPT !.status = 400]
              ELSE [req EXCEPT !.pc = "checked",
                               !.existed = byEmail(email) # {}])
    /\ UNCHANGED users
    /\ authFrame

\* ... and from there: 400 for an existing user, else the insert, which the
\* unique email makes throw when the row has appeared meanwhile.
RegisterInsert(r) ==
    /\ r \in DOMAIN authReqs
    /\ authReqs[r].op = "register" /\ authReqs[r].pc = "checked"
    /\ LET req == authReqs[r]
           id == Len(users) + 1
           role == IF req.role = "admin" THEN "admin" ELSE "client"
       IN  IF req.existed
           THEN /\ authReqs' = [authReqs EXCEPT ![r].pc = "done", ![r].status = 400]
                /\ UNCHANGED users
           ELSE IF byEmail(req.email) # {}
           THEN /\ authReqs' = [authReqs EXCEPT ![r].pc = "done", ![r].status = 500]
                /\ UNCHANGED users
           ELSE /\ users' = Append(users,
                       [email |-> req.email, role |-> role,
                        password |-> bcryptHash(req.password)])
                /\ authReqs' = [authReqs EXCEPT ![r].pc = "done",
                       ![r].status = 200, ![r].id = id, ![r].returned = role,
                       ![r].inserted = TRUE]
    /\ authFrame

\* POST /api/auth/login
Login(rawEmail, password) ==
    /\ Len(authReqs) < MaxAuthReqs
    /\ LET req == [AuthReq("login") EXCEPT !.email = rawEmail,
                      !.password = password]
           found == byEmail(normalize(rawEmail))
           user == users[CHOOSE id \in found : TRUE]
       IN  authReqs' = Append(authReqs,
              IF rawEmail = <<>> \/ password = <<>>
              THEN [req EXCEPT !.status = 400]
              ELSE IF found = {} THEN [req EXCEPT !.status = 401]
              ELSE IF ~bcryptCompare(password, user.password)
              THEN [req EXCEPT !.status = 401]
              ELSE [req EXCEPT !.status = 200,
                               !.id = CHOOSE id \in found : TRUE,
                               !.returned = user.role])
    /\ UNCHANGED users
    /\ authFrame

\* POST /api/auth/client-login up to the answer of the select
ClientLoginReceive(rawEmail) ==
    /\ Len(authReqs) < MaxAuthReqs
    /\ LET req == [AuthReq("client-login") EXCEPT !.email = rawEmail]
           email == normalize(rawEmail)
           found == byEmail(email)
           existingUser == users[CHOOSE id \in found : TRUE]
       IN  authReqs' = Append(authReqs,
              IF rawEmail = <<>> THEN [req EXCEPT !.status = 400]
              ELSE IF ~emailRegex(email) THEN [req EXCEPT !.status = 400]
              ELSE IF found # {}
              THEN IF existingUser.role = "admin"
                   THEN [req EXCEPT !.status = 403]
                   ELSE [req EXCEPT !.status = 200,
                                    !.id = CHOOSE id \in found : TRUE,
                                    !.returned = existingUser.role]
              ELSE [req EXCEPT !.pc = "creating"])
    /\ UNCHANGED users
    /\ authFrame

\* ... and from there: a client with a random password is inserted.
ClientLoginInsert(r) ==
    /\ r \in DOMAIN authReqs
    /\ authReqs[r].op = "client-login" /\ authReqs[r].pc = "creating"
    /\ LET email == normalize(authReqs[r].email)
       IN  IF byEmail(email) # {}
           THEN /\ authReqs' = [authReqs EXCEPT ![r].pc = "done", ![r].status = 500]
                /\ UNCHANGED users
           ELSE /\ users' = Append(users,
                       [email |-> email, role |-> "client",
                        password |-> bcryptHash(<<"random">>)])
                /\ authReqs' = [authReqs EXCEPT ![r].pc = "done",
                       ![r].status = 200, ![r].id = Len(users) + 1,
                       ![r].returned = "client", ![r].inserted = TRUE]
    /\ authFrame

\* POST /api/users/:id/change-password up to the compare
ChangePasswordReceive(userId, currentPassword, newPassword) ==
    /\ Len(authReqs) < MaxAuthReqs
    /\ LET req == [AuthReq("change-password") EXCEPT !.userId = userId,
                      !.password = currentPassword, !.newPassword = newPassword]
       IN  authReqs' = Append(authReqs,
              IF currentPassword = <<>> \/ newPassword = <<>>
              THEN [req EXCEPT !.status = 400]
              ELSE IF Len(newPassword) < 4 THEN [req EXCEPT !.status = 400]
              ELSE IF userId \notin DOMAIN users THEN [req EXCEPT !.status = 404]
              ELSE IF ~bcryptCompare(currentPassword, users[userId].password)
              THEN [req EXCEPT !.status = 401,
                               !.read = users[userId].password]
              ELSE [req EXCEPT !.pc = "hashing",
                               !.read = users[userId].password])
    /\ UNCHANGED users
    /\ authFrame

\* ... and from there: the hash of the new password is stored.
ChangePasswordUpdate(r) ==
    /\ r \in DOMAIN authReqs
    /\ authReqs[r].op = "change-password" /\ authReqs[r].pc = "hashing"
    /\ users' = [users EXCEPT ![authReqs[r].userId].password =
                    bcryptHash(authReqs[r].newPassword)]
    /\ authReqs' = [authReqs EXCEPT ![r].pc = "done", ![r].status = 200]
    /\ authFrame

RegisterBodies ==
    [email : {email_lower, email_upper, email_space}, password : {pw_1234},
     name : {"n"}, role : {"admin", "client"}]
    \cup {[email |-> <<>>, password |-> pw_1234, name |-> "n", role |-> "client"],
          [email |-> email_lower, password |-> <<>>, name |-> "n", role |-> "client"],
          [email |-> email_lower, password |-> pw_1234, name |-> "", role |-> "client"]}

LoginBodies ==
    [email : {email_lower, email_upper, email_space}, password : {pw_1234, pw_5678}]
    \cup {[email |-> <<>>, password |-> pw_1234]}

PasswordBodies ==
    [currentPassword : {pw_1234, pw_5678}, newPassword : {pw_5678, pw_123}]
    \cup {[currentPassword |-> <<>>, newPassword |-> pw_5678],
          [currentPassword |-> pw_1234, newPassword |-> <<>>]}

NextAuth ==
    \/ \E body \in RegisterBodies :
          RegisterReceive(body.email, body.password, body.name, body.role)
    \/ \E r \in 1 .. MaxAuthReqs : RegisterInsert(r)
    \/ \E body \in LoginBodies : Login(body.email, body.password)
    \/ \E rawEmail \in {email_lower, email_upper, email_space, email_bad, <<>>} :
          ClientLoginReceive(rawEmail)
    \/ \E r \in 1 .. MaxAuthReqs : ClientLoginInsert(r)
    \/ \E userId \in {1, 2}, body \in PasswordBodies :
          ChangePasswordReceive(userId, body.currentPassword, body.newPassword)
    \/ \E r \in 1 .. MaxAuthReqs : ChangePasswordUpdate(r)

SpecAuth == Init /\ [][NextAuth]_vars

\* The chunked upload alone: one session at a time, every declared size, a
\* video among the declared types.
Next ==
    \/ \E body \in InitBodies :
          /\ created < MaxSessions
                \/ Falsy(body.fileName, body.fileSize, body.submissionId)
          /\ InitUpload(body.fileName, body.fileSize, body.mimeType,
                        body.submissionId)
    \/ \E uploadId \in UploadIds : GetStatus(uploadId)
    \/ \E uploadId \in UploadIds, chunkIdx \in ChunkIdxs :
          PutChunkReceive(uploadId, chunkIdx, TRUE)
    \/ \E uploadId \in UploadIds : PutChunkReceive(uploadId, 0, FALSE)
    \/ \E r \in 1 .. MaxPuts : PutChunkHandle(r)
    \/ \E uploadId \in UploadIds : FinalizeMerge(uploadId)
    \/ \E r \in 1 .. MaxFinalizes, success \in BOOLEAN :
          FinalizeThumbnail(r, success)
    \/ \E r \in 1 .. MaxFinalizes, outcome \in {"stored", "error", "throw"} :
          FinalizeUpload(r, outcome)
    \/ \E r \in 1 .. MaxFinalizes, outcome \in {"stored", "error", "throw"} :
          FinalizeThumbUpload(r, outcome)
    \/ \E r \in 1 .. MaxFinalizes, inserted \in BOOLEAN : FinalizeInsert(r, inserted)
    \/ \E r \in 1 .. MaxFinalizes : FinalizeCleanup(r)

Spec == Init /\ [][Next]_vars

\* The steps of a finalize request past the merge.
FinalizeSteps ==
    \/ \E r \in 1 .. MaxFinalizes, success \in BOOLEAN :
          FinalizeThumbnail(r, success)
    \/ \E r \in 1 .. MaxFinalizes, outcome \in {"stored", "error", "throw"} :
          FinalizeUpload(r, outcome)
    \/ \E r \in 1 .. MaxFinalizes, outcome \in {"stored", "error", "throw"} :
          FinalizeThumbUpload(r, outcome)
    \/ \E r \in 1 .. MaxFinalizes, inserted \in BOOLEAN : FinalizeInsert(r, inserted)
    \/ \E r \in 1 .. MaxFinalizes : FinalizeCleanup(r)

\* The chunked upload of one-chunk files of every declared type.
MimeTypes ==
    {<<>>, video_mp4, <<"audio", "/", "mpeg">>, image_png, application_pdf,
     <<"application", "/", "vnd", "document">>, <<"video", "/", "pdf">>,
     <<"audio", "/", "document">>, <<"image", "/", "pdf">>,
     <<"text", "/", "plain">>, <<"application", "/", "msword">>,
     <<"x", "video", "/", "mp4">>}

NextMime ==
    \/ \E mimeType \in MimeTypes :
          /\ created < MaxSessions
          /\ InitUpload("a.mp4", Num(10 * MiB), mimeType, 1)
    \/ \E uploadId \in UploadIds : GetStatus(uploadId)
    \/ \E uploadId \in UploadIds : PutChunkReceive(uploadId, 0, TRUE)
    \/ \E r \in 1 .. MaxPuts : PutChunkHandle(r)
    \/ \E uploadId \in UploadIds : FinalizeMerge(uploadId)
    \/ FinalizeSteps

SpecMime == Init /\ [][NextMime]_vars

\* Two sessions side by side, of different declared sizes and types.
IsoSessions == 2
IsoUploadIds == 1 .. IsoSessions

NextIso ==
    \/ \E body \in {[fileSize |-> Num(10 * MiB), mimeType |-> video_mp4],
                     [fileSize |-> Num(15 * MiB), mimeType |-> <<>>]} :
          /\ created < IsoSessions
          /\ InitUpload("a.mp4", body.fileSize, body.mimeType, 1)
    \/ \E uploadId \in IsoUploadIds : GetStatus(uploadId)
    \/ \E uploadId \in IsoUploadIds, chunkIdx \in {0, 1} :
          PutChunkReceive(uploadId, chunkIdx, TRUE)
    \/ \E r \in 1 .. MaxPuts : PutChunkHandle(r)
    \/ \E uploadId \in IsoUploadIds : FinalizeMerge(uploadId)
    \/ FinalizeSteps

SpecIso == Init /\ [][NextIso]_vars

\* The attachment table under all of its writers: one chunked upload of a
\* one-chunk video, the link API, the single-request upload and the portal.
NextDirect ==
    \/ created < 1 /\ InitUpload("a.mp4", Num(10 * MiB), video_mp4, 1)
    \/ Len(putReqs) < 1 /\ PutChunkReceive(1, 0, TRUE)
    \/ PutChunkHandle(1)
    \/ Len(finReqs) < 1 /\ FinalizeMerge(1)
    \/ FinalizeSteps
    \/ \E id \in {1, 2}, body \in LinkBodies : LinkAttachment(id, body)
    \/ \E fileName \in {"", "b.png"}, outcome \in {"ok", "error", "throw"} :
          UploadUrl(fileName, image_png, outcome)
    \/ \E id \in {1, 2}, hasFile \in BOOLEAN,
          outcome \in {"stored", "error", "throw"} :
          SimpleUploadStore(id, hasFile, application_pdf, outcome)
    \/ \E r \in 1 .. MaxUploads : SimpleUploadInsert(r)
    \/ \E fileType \in {<<>>, application_pdf}, inserted \in BOOLEAN :
          PortalSubmit(fileType, inserted)
    \/ \E outcome \in {"ok", "error", "throw"} : PortalRequestTarget(outcome)
    \/ \E outcome \in {"ok", "refused", "lost", "answerLost"} :
          PortalPut(outcome)
    \/ PortalLink

SpecDirect == Init /\ [][NextDirect]_vars

\* ===================================================================
\* Properties
\* ===================================================================

\* ceil(size / chunkSize) for a positive size, stated without division: the
\* least number of chunks of chunkSize bytes that hold size bytes.
NumChunks(size) ==
    CHOOSE n \in 0 .. MaxChunkIdx + 2 :
        /\ n * chunkSize >= size
        /\ n = 0 \/ (n - 1) * chunkSize < size

RECURSIVE ConcatAll(_)
ConcatAll(ss) == IF ss = <<>> THEN <<>> ELSE Head(ss) \o ConcatAll(Tail(ss))

\* The stored chunks 0 .. n-1 of a session, one after the other.
InIndexOrder(uploadId, n) ==
    ConcatAll([i \in 1 .. n |-> chunkFiles[<<uploadId, i - 1>>]])

\* The indices of the chunk requests on a session that were answered 200.
Uploaded(uploadId) ==
    {putReqs[r].chunkIdx : r \in {q \in DOMAIN putReqs :
        putReqs[q].uploadId = uploadId /\ putReqs[q].status = 200}}

\* The finalize requests on a session that were answered 200.
Finalized(uploadId) ==
    {r \in DOMAIN finReqs :
        finReqs[r].uploadId = uploadId /\ finReqs[r].status = 200}

\* The attachment rows written by the finalize requests on a session.
AttachmentsOf(uploadId) ==
    {i \in DOMAIN attachments :
        finReqs[attachments[i].fileUrl.name].uploadId = uploadId}

\* The bytes an attachment's fileUrl serves.
Resolves(url) ==
    IF url.store = "bucket" THEN url.name \in DOMAIN bucket
    ELSE FinalName(url.name) \in DOMAIN uploadDir
Artifact(url) ==
    IF url.store = "bucket" THEN bucket[url.name]
    ELSE uploadDir[FinalName(url.name)]

\* ------------------------------------------------------------------ C1
C1_MergeStep ==
    \A r \in DOMAIN finReqs' \ DOMAIN finReqs :
        LET uploadId == finReqs'[r].uploadId
            n == NumChunks(finReqs'[r].fileSize.val)
        IN  (/\ finReqs'[r].pc \in {"merged", "thumbnail"}
             /\ finReqs'[r].fileSize.num
             /\ \A i \in 0 .. n - 1 : <<uploadId, i>> \in DOMAIN chunkFiles)
            => uploadDir'[FinalName(r)] = InIndexOrder(uploadId, n)

C1_Kept ==
    /\ \A r \in DOMAIN finReqs :
          FinalName(r) \in DOMAIN uploadDir =>
              \/ /\ FinalName(r) \in DOMAIN uploadDir'
                 /\ uploadDir'[FinalName(r)] = uploadDir[FinalName(r)]
              \/ /\ r \in DOMAIN bucket'
                 /\ bucket'[r] = uploadDir[FinalName(r)]
    /\ \A r \in DOMAIN bucket : r \in DOMAIN bucket' /\ bucket'[r] = bucket[r]

C1_Served ==
    \A i \in DOMAIN attachments :
        LET url == attachments[i].fileUrl
        IN  /\ Resolves(url)
            /\ finReqs[url.name].pc \in {"inserted", "done"}

\* C1: when every chunk 0 .. n-1 of a session (n = ceil(declaredSize / 10 MiB))
\* is stored, whatever the arrival order and the re-uploads, the file finalize
\* assembles is the stored chunks 0, 1, ..., n-1 in ascending index order;
\* these bytes are kept unchanged (on disk or, once uploaded, in the bucket)
\* and are what the fileUrl of the attachment serves.
C1_ReassemblyInIndexOrder ==
    /\ [][C1_MergeStep /\ C1_Kept]_vars
    /\ []C1_Served

\* A served artifact made of chunk 0 from the second chunk request and chunk 1
\* from the first: the chunks arrived in reverse order, of different lengths.
C1_Witness ==
    \E i \in DOMAIN attachments :
        /\ Resolves(attachments[i].fileUrl)
        /\ Artifact(attachments[i].fileUrl) = Bytes(2) \o Bytes(1)
        /\ finReqs[attachments[i].fileUrl.name].status = 200

\* ------------------------------------------------------------------ C2
\* C2: on a live session every index uploaded one or more times appears in
\* uploadedChunks exactly once, and the count a successful chunk request
\* returns is the number of distinct indices uploaded so far.
C2_IdempotentPut ==
    \A uploadId \in DOMAIN sessionJson :
        LET arr == sessionJson[uploadId].uploadedChunks
        IN  /\ \A i \in Uploaded(uploadId) :
                  Cardinality({k \in DOMAIN arr : arr[k] = i}) = 1
            /\ (resp.op = "chunk" /\ resp.status = 200 /\ resp.uploadId = uploadId)
                  => resp.count = Cardinality(Uploaded(uploadId))

\* The second upload of the same index has just been accepted.
C2_Witness ==
    /\ resp.op = "chunk" /\ resp.status = 200 /\ resp.req = 2
    /\ putReqs[1].status = 200
    /\ putReqs[1].uploadId = putReqs[2].uploadId
    /\ putReqs[1].chunkIdx = putReqs[2].chunkIdx
    /\ resp.count = 1

\* ------------------------------------------------------------------ C3
C3_Step ==
    \A r \in DOMAIN finReqs' \ DOMAIN finReqs :
        LET uploadId == finReqs'[r].uploadId
        IN  (/\ uploadId \in DOMAIN sessionJson
             /\ sessionJson[uploadId].fileSize.num
             /\ Cardinality(Range(sessionJson[uploadId].uploadedChunks))
                    < NumChunks(sessionJson[uploadId].fileSize.val))
            => /\ resp'.op = "finalize" /\ resp'.req = r
               /\ resp'.status = 400 /\ resp'.error = "incomplete"
               /\ finReqs'[r].pc = "done"
               /\ UNCHANGED <<sessionJson, chunkFiles, uploadDir, bucket,
                              attachments>>

\* C3: finalize on a session with fewer received indices than
\* ceil(declaredSize / chunkSize) answers 400 (incomplete upload), writes
\* nothing to disk or to the bucket, inserts no attachment and leaves
\* session.json and the chunk files as they were.
C3_IncompleteRejected == [][C3_Step]_vars

\* Finalize has just been refused on a two-chunk session holding one chunk.
C3_Witness ==
    /\ resp.op = "finalize" /\ resp.status = 400 /\ resp.error = "incomplete"
    /\ resp.uploadId \in DOMAIN sessionJson
    /\ sessionJson[resp.uploadId].fileSize = Num(15 * MiB)
    /\ Len(sessionJson[resp.uploadId].uploadedChunks) = 1

\* ------------------------------------------------------------------ C4
C4_Step ==
    \A r \in DOMAIN finReqs' \ DOMAIN finReqs :
        LET uploadId == finReqs'[r].uploadId
            notRejected == {q \in DOMAIN finReqs :
                               /\ finReqs[q].uploadId = uploadId
                               /\ finReqs[q].status \notin {400, 404}}
        IN  Finalized(uploadId) # {}
            => /\ resp'.op = "finalize" /\ resp'.req = r /\ resp'.status = 404
               /\ attachments' = attachments
               /\ Cardinality(notRejected) = 1
                     => Cardinality(AttachmentsOf(uploadId)) = 1

\* C4: a finalize request received after a finalize of the same session was
\* answered 200 is answered 404 and inserts nothing; when that earlier finalize
\* is the only one of the session that was not rejected with 400 or 404 (no
\* other finalize ran alongside it), one attachment exists for the upload.
C4_SecondFinalizeNotFound == [][C4_Step]_vars

\* The second finalize of a consumed session has just been answered 404.
C4_Witness ==
    /\ resp.op = "finalize" /\ resp.status = 404
    /\ \E r \in Finalized(resp.uploadId) : r < resp.req
    /\ Cardinality(AttachmentsOf(resp.uploadId)) = 1

\* ------------------------------------------------------------------ C5
\* C5: once a finalize of a session was answered 200, session.json and every
\* chunk file of the session are gone, and a status or chunk request on it is
\* answered 404.
C5_ConsumedAfterFinalize ==
    \A r \in DOMAIN finReqs :
        finReqs[r].status = 200 =>
            LET uploadId == finReqs[r].uploadId
            IN  /\ uploadId \notin DOMAIN sessionJson
                /\ \A k \in DOMAIN chunkFiles : k[1] # uploadId
                /\ (resp.op \in {"status", "chunk"} /\ resp.uploadId = uploadId)
                      => resp.status = 404

\* A status request on a finalized one-chunk session has just been answered 404.
C5_Witness ==
    /\ resp.op = "status" /\ resp.status = 404
    /\ \E r \in Finalized(resp.uploadId) : finReqs[r].fileSize = Num(10 * MiB)

\* ------------------------------------------------------------------ C6
\* The attachment rows written by finalize request r.
RowsOf(r) == {i \in DOMAIN attachments : attachments[i].fileUrl.name = r}

C6_Step ==
    \A r \in DOMAIN finReqs :
        /\ (supabase /\ finReqs[r].pc = "merged" /\ finReqs'[r].pc = "done")
              => /\ finReqs'[r].status = 500
                 /\ resp'.op = "finalize" /\ resp'.req = r
                 /\ resp'.status = 500
                 /\ UNCHANGED <<sessionJson, chunkFiles, uploadDir, bucket,
                                attachments>>
        /\ (finReqs[r].pc = "thumbUpload" /\ finReqs'[r].pc = "done")
              => /\ finReqs'[r].status = 500
                 /\ resp'.op = "finalize" /\ resp'.req = r
                 /\ resp'.status = 500
                 /\ UNCHANGED <<sessionJson, chunkFiles, attachments>>
        /\ (~finReqs[r].uploadError /\ finReqs'[r].uploadError)
              => /\ finReqs'[r].pc = "uploaded"
                 /\ finReqs'[r].fileUrl = LocalUrl(r)
                 /\ resp' = NoResponse
                 /\ UNCHANGED <<sessionJson, chunkFiles, uploadDir, bucket,
                                attachments>>

C6_Fallback ==
    \A r \in DOMAIN finReqs :
        finReqs[r].uploadError
            => /\ r \notin DOMAIN bucket
               /\ FinalName(r) \in DOMAIN uploadDir
               /\ finReqs[r].status = 500 => RowsOf(r) = {}
               /\ \A i \in RowsOf(r) :
                     /\ attachments[i].fileUrl = LocalUrl(r)
                     /\ attachments[i].fileSize =
                            Num(Len(uploadDir[FinalName(r)]))

C7_NoLostUpdate ==
    \A uploadId \in DOMAIN sessionJson :
        Range(sessionJson[uploadId].uploadedChunks) = Uploaded(uploadId)

\* Two chunk requests with distinct indices on one session overlapped: the
\* first to arrive was the last to be answered, and both indices are recorded.
C7_Witness ==
    /\ resp.op = "chunk" /\ resp.status = 200 /\ resp.req = 1
    /\ Len(putReqs) >= 2 /\ putReqs[2].status = 200
    /\ putReqs[2].uploadId = putReqs[1].uploadId
    /\ putReqs[2].chunkIdx # putReqs[1].chunkIdx
    /\ resp.uploadId \in DOMAIN sessionJson
    /\ Len(sessionJson[resp.uploadId].uploadedChunks) = 2

\* ------------------------------------------------------------------ C8
\* C8 as stated: every index in uploadedChunks lies in
\* 0 .. ceil(declaredSize / chunkSize) - 1.
C8_IndicesInRange ==
    \A uploadId \in DOMAIN sessionJson :
        sessionJson[uploadId].fileSize.num =>
            \A i \in Range(sessionJson[uploadId].uploadedChunks) :
                0 <= i /\ i < NumChunks(sessionJson[uploadId].fileSize.val)

\* ------------------------------------------------------------------ C9
C9_Frame == UNCHANGED <<sessionJson, chunkFiles, uploadDir, bucket, attachments>>

C9_Step ==
    /\ (resp'.op = "status" /\ resp'.uploadId \notin DOMAIN sessionJson)
          => resp'.status = 404 /\ C9_Frame
    /\ (resp'.op = "chunk" /\ resp'.uploadId \notin DOMAIN sessionJson)
          => resp'.status = 404 /\ C9_Frame
    /\ \A r \in DOMAIN finReqs' \ DOMAIN finReqs :
          finReqs'[r].uploadId \notin DOMAIN sessionJson
              => /\ resp'.op = "finalize" /\ resp'.req = r
                 /\ resp'.status = 404 /\ C9_Frame

\* C9: a status, chunk or finalize request on an uploadId that has no
\* session (not created, or consumed by a finalize) is answered 404 and
\* changes no session, no chunk, no stored file and no attachment.
C9_UnknownSessionNotFound == [][C9_Step]_vars

\* A chunk request without a file part on an uploadId with no session has
\* just been answered 404.
C9_Witness ==
    /\ resp.op = "chunk" /\ resp.status = 404
    /\ ~putReqs[resp.req].hasFile
    /\ resp.uploadId \notin DOMAIN sessionJson

\* ------------------------------------------------------------------ C10
C10_Status ==
    (resp.op = "status" /\ resp.status = 200) =>
        LET arr == resp.uploadedChunks
        IN  /\ \A i, j \in DOMAIN arr : i < j => arr[i] < arr[j]
            /\ Range(arr) = Uploaded(resp.uploadId)
            /\ resp.fileName = sessionJson[resp.uploadId].fileName
            /\ resp.fileSize = sessionJson[resp.uploadId].fileSize

C10_Declared ==
    \A uploadId \in DOMAIN sessionJson \cap DOMAIN sessionJson' :
        /\ sessionJson'[uploadId].fileName = sessionJson[uploadId].fileName
        /\ sessionJson'[uploadId].fileSize = sessionJson[uploadId].fileSize

\* C10: the status of a live session lists exactly the indices of the chunk
\* requests answered 200 since init, in ascending order whatever the order
\* of arrival, with the fileName and fileSize session.json has held unchanged
\* since init wrote them.
C10_StatusSortedExact ==
    /\ []C10_Status
    /\ [][C10_Declared]_vars

\* Status after chunk 1 was uploaded before chunk 0.
C10_Witness ==
    /\ resp.op = "status" /\ resp.status = 200
    /\ resp.uploadedChunks = <<0, 1>>
    /\ putReqs[1].chunkIdx = 1 /\ putReqs[2].chunkIdx = 0

\* ------------------------------------------------------------------ C11
C11_Step ==
    \A body \in InitBodies :
        InitUpload(body.fileName, body.fileSize, body.mimeType, body.submissionId)
        => IF body.fileName = "" \/ body.fileSize = Num(0)
              \/ body.submissionId = 0
           THEN /\ resp'.op = "init" /\ resp'.status = 400
                /\ UNCHANGED <<sessionJson, chunkFiles, created>>
           ELSE /\ resp'.op = "init" /\ resp'.status = 200
                /\ resp'.uploadId \notin DOMAIN sessionJson
                /\ DOMAIN sessionJson' = DOMAIN sessionJson \cup {resp'.uploadId}
                /\ \A u \in DOMAIN sessionJson : sessionJson'[u] = sessionJson[u]
                /\ sessionJson'[resp'.uploadId].uploadedChunks = <<>>
                /\ sessionJson'[resp'.uploadId].fileName = body.fileName
                /\ sessionJson'[resp'.uploadId].fileSize = body.fileSize
                /\ resp'.chunkSize = 10 * MiB
                /\ resp'.chunkSize = chunkSize
                /\ UNCHANGED chunkFiles

\* C11: init with fileName, fileSize or submissionId missing (absent, "" or 0:
\* falsy) is answered 400 and creates no session; any other init creates one
\* new session, with the declared name and size and an empty uploadedChunks,
\* leaves the other sessions as they are, and returns its uploadId with
\* chunkSize = 10 MiB, the chunk size finalize divides the declared size by.
C11_InitValidatesAndCreates == [][C11_Step]_vars

\* Init has just created a session of a declared 15 MiB.
C11_Witness ==
    /\ resp.op = "init" /\ resp.status = 200 /\ resp.chunkSize = 10485760
    /\ resp.uploadId \in DOMAIN sessionJson
    /\ sessionJson[resp.uploadId].uploadedChunks = <<>>
    /\ sessionJson[resp.uploadId].fileSize = Num(15 * MiB)

\* ------------------------------------------------------------------ C12
\* The rule of the claim: the first of these tests that holds decides.
C12_Rule(mimeType) ==
    LET prefix(type) == /\ Len(mimeType) >= 2
                        /\ mimeType[1] = type /\ mimeType[2] = "/"
        has(token) == \E i \in DOMAIN mimeType : mimeType[i] = token
    IN  CASE prefix("video") -> "video"
          [] ~prefix("video") /\ prefix("audio") -> "audio"
          [] ~prefix("video") /\ ~prefix("audio") /\ prefix("image") -> "image"
          [] ~prefix("video") /\ ~prefix("audio") /\ ~prefix("image")
             /\ (has("pdf") \/ has("document")) -> "document"
          [] OTHER -> "other"

C12_Classified ==
    \A i \in DOMAIN attachments :
        /\ attachments[i].fileType = C12_Rule(attachments[i].mimeType)
        /\ attachments[i].mimeType = finReqs[attachments[i].fileUrl.name].mimeType

C12_Declared ==
    \A r \in DOMAIN finReqs' \ DOMAIN finReqs :
        finReqs'[r].pc # "done"
            => finReqs'[r].mimeType = sessionJson[finReqs'[r].uploadId].mimeType

\* C12: the fileType of every attachment finalize inserts is derived from the
\* mimeType session.json declares: video for the prefix "video/", else audio
\* for "audio/", else image for "image/", else document when the type
\* contains "pdf" or "document", else other.
C12_FileTypeByFirstMatch ==
    /\ []C12_Classified
    /\ [][C12_Declared]_vars

\* A declared "video/pdf" was classified video: the first rule won over the
\* document rule.
C12_Witness ==
    \E i \in DOMAIN attachments :
        /\ attachments[i].mimeType = <<"video", "/", "pdf">>
        /\ attachments[i].fileType = "video"
        /\ finReqs[attachments[i].fileUrl.name].status = 200

\* ------------------------------------------------------------------ C13
\* C13 as stated: the fileType of every attachment row is one of the five
\* file types of the schema.
C13_FileTypeInEnum ==
    \A i \in DOMAIN attachments :
        attachments[i].fileType \in {"video", "audio", "image", "document", "other"}

\* ------------------------------------------------------------------ C14
\* The video finalize requests whose thumbnail generation failed: past the
\* thumbnail step with no thumbnailUrl.
ThumbnailFailures ==
    {r \in DOMAIN finReqs :
        /\ fileTypeOf(finReqs[r].mimeType) = "video"
        /\ finReqs[r].pc \notin {"thumbnail", "done"} \/ finReqs[r].status = 200
        /\ finReqs[r].thumbnailUrl = NoUrl}

C14_Step ==
    \A r \in DOMAIN finReqs :
        (/\ finReqs[r].pc = "thumbnail" /\ finReqs'[r].pc # "thumbnail"
         /\ finReqs'[r].thumbnailUrl = NoUrl)
            => /\ finReqs' = [finReqs EXCEPT ![r].pc = "merged"]
               /\ resp' = NoResponse
               /\ UNCHANGED <<sessionJson, chunkFiles, uploadDir, bucket,
                              bucketThumbs, attachments>>

C14_Outcome ==
    \A r \in ThumbnailFailures :
        /\ ThumbName(r) \notin DOMAIN uploadDir /\ r \notin bucketThumbs
        /\ \A i \in RowsOf(r) : attachments[i].thumbnailUrl = NoUrl
        /\ finReqs[r].status = 200
              => /\ Cardinality(RowsOf(r)) = 1
                 /\ finReqs[r].uploadId \notin DOMAIN sessionJson
                 /\ \A k \in DOMAIN chunkFiles : k[1] # finReqs[r].uploadId

\* C14: when the thumbnail generation of a video finalize fails, the request
\* answers nothing and changes nothing: it goes on from the state a non-video
\* finalize is in after its merge.  No thumbnail is written or uploaded, the
\* attachment it inserts has no thumbnailUrl, and when it is answered 200
\* that attachment exists and session.json and the chunks are gone.
C14_ThumbnailFailureNonFatal ==
    /\ [][C14_Step]_vars
    /\ []C14_Outcome

\* A video finalize answered 200 after its thumbnail generation failed.
C14_Witness ==
    \E r \in ThumbnailFailures :
        /\ finReqs[r].status = 200
        /\ \E i \in RowsOf(r) : attachments[i].fileType = "video"
                                /\ attachments[i].thumbnailUrl = NoUrl
        /\ finReqs[r].uploadId \notin DOMAIN sessionJson

\* ------------------------------------------------------------------ C15
C15_Step ==
    \A id \in {1, 2}, body \in LinkBodies \cup {PortalLinkBody} :
        LinkAttachmentHandler(id, body)
        => LET missing == body.fileName = "" \/ body.fileUrl = NoUrl
               row == attachments'[Len(attachments')]
           IN  /\ resp'.op = "link"
               /\ resp'.status = 400 <=> missing
               /\ resp'.status # 200 => attachments' = attachments
               /\ (~missing /\ id \in SubmissionIds)
                     => /\ resp'.status = 200
                        /\ attachments' = Append(attachments, row)
                        /\ resp'.attachment = row.id
                        /\ row.submissionId = id
                        /\ row.fileName = body.fileName
                        /\ row.fileUrl = body.fileUrl
                        /\ row.fileSize = body.fileSize

C16_Step ==
    \* the steps come in the order submission, target, PUT, link
    /\ portal'.pc = "target" => portal.pc \in {"idle", "target"}
    /\ portal'.pc = "put" => portal.pc \in {"target", "put"}
    /\ portal'.pc = "link" => portal.pc \in {"put", "link"}
    /\ portal'.pc = "done" => portal.pc \in {"link", "done"}
    \* the target is the one upload-url has just returned
    /\ (portal.pc = "target" /\ portal'.pc = "put")
          => /\ resp'.op = "upload-url" /\ resp'.status = 200
             /\ portal'.publicUrl = resp'.publicUrl
             /\ portal'.publicUrl = UploadsUrl(portal'.path)
             /\ portal'.path \notin DOMAIN bucketUploads
    \* the PUT goes to that target
    /\ (portal.pc = "put" /\ portal'.putStatus = 200)
          => /\ portal.path \in DOMAIN bucketUploads'
             /\ bucketUploads'[portal.path] = PortalFile
    \* a link call follows a PUT answered 2xx and carries the publicUrl
    /\ portal'.linkCalls # portal.linkCalls
          => /\ portal.pc = "link" /\ portal.linkCalls = 0
             /\ portal.putStatus >= 200 /\ portal.putStatus < 300
             /\ resp'.op = "link"
             /\ IF resp'.status = 200
                THEN /\ portal'.pc = "done"
                     /\ portal'.linked = resp'.attachment
                     /\ attachments' = Append(attachments,
                                              attachments'[resp'.attachment])
                     /\ attachments'[resp'.attachment].fileUrl = portal.publicUrl
                     /\ attachments'[resp'.attachment].submissionId
                            = portal.submission
                ELSE /\ portal'.pc = "failed" /\ portal'.linked = 0
                     /\ attachments' = attachments
    /\ portal'.linkCalls = portal.linkCalls
          => portal'.linked = portal.linked

C16_Failed ==
    /\ (portal.pc = "failed" /\ portal.failedAt \in {"submission", "target", "put"})
          => portal.linkCalls = 0 /\ portal.linked = 0
    /\ portal.pc \in {"idle", "target", "put", "link"}
          => portal.linkCalls = 0 /\ portal.linked = 0
    /\ portal.failedAt = "put" => ~(portal.putStatus >= 200 /\ portal.putStatus < 300)

\* C16: the portal's submit flow requests the upload target, then PUTs the
\* file to it, then links: it calls the link endpoint only after the PUT was
\* answered 2xx, once, with the publicUrl upload-url returned as fileUrl; when
\* the submission, the target request or the PUT fails it makes no link call
\* and links no attachment.
C16_PortalOrder ==
    /\ [][C16_Step]_vars
    /\ []C16_Failed

\* The portal linked an attachment whose fileUrl is the public URL of the
\* object its PUT stored.
C16_Witness ==
    /\ portal.pc = "done" /\ portal.putStatus = 200 /\ portal.linked # 0
    /\ attachments[portal.linked].fileUrl = UploadsUrl(portal.path)
    /\ bucketUploads[portal.path] = PortalFile

\* ------------------------------------------------------------------ C17
C17_Step ==
    \A i \in DOMAIN attachments :
        /\ i \in DOMAIN attachments'
        /\ attachments'[i].id = attachments[i].id
        /\ attachments'[i].fileUrl = attachments[i].fileUrl
        /\ attachments'[i].fileName = attachments[i].fileName
        /\ attachments'[i].fileSize = attachments[i].fileSize
        /\ attachments'[i].fileType = attachments[i].fileType
        /\ attachments'[i].submissionId = attachments[i].submissionId

\* C17: no step of the chunked upload, of the link API, of the single-request
\* upload or of the portal changes the fileUrl, fileName, fileSize, fileType
\* or submission of an attachment row that exists, or removes the row.
C17_AttachmentsImmutable == [][C17_Step]_vars

\* Rows of one submission inserted one after the other by the link API and by
\* a chunked finalize, the first one as it was inserted.
C17_Witness ==
    /\ Len(attachments) >= 2
    /\ attachments[1].fileUrl = ClientUrl(1) /\ attachments[1].submissionId = 1
    /\ \E i \in DOMAIN attachments :
          /\ i > 1 /\ attachments[i].submissionId = 1
          /\ attachments[i].fileUrl.store \in {"uploads", "bucket"}
          /\ finReqs[1].status = 200

\* ------------------------------------------------------------------ C18
\* The sessions the step's request is addressed to: the uploadId of the chunk
\* or finalize request that arrived or moved on, or of the init or status
\* request that was answered.
C18_Addressed ==
    {putReqs'[r].uploadId : r \in {q \in DOMAIN putReqs' :
        q \notin DOMAIN putReqs \/ putReqs'[q] # putReqs[q]}}
    \cup {finReqs'[r].uploadId : r \in {q \in DOMAIN finReqs' :
        q \notin DOMAIN finReqs \/ finReqs'[q] # finReqs[q]}}
    \cup (IF resp'.op \in {"init", "status"} THEN {resp'.uploadId} ELSE {})

C18_Step ==
    /\ Cardinality(C18_Addressed) <= 1
    /\ \A B \in (DOMAIN sessionJson \cup DOMAIN sessionJson') \ C18_Addressed :
          /\ B \in DOMAIN sessionJson /\ B \in DOMAIN sessionJson'
          /\ sessionJson'[B] = sessionJson[B]
    /\ \A k \in DOMAIN chunkFiles \cup DOMAIN chunkFiles' :
          k[1] \notin C18_Addressed
              => /\ k \in DOMAIN chunkFiles /\ k \in DOMAIN chunkFiles'
                 /\ chunkFiles'[k] = chunkFiles[k]

\* C18: every step serves a request on one session, and leaves session.json
\* (descriptor and uploadedChunks) and the chunk files of every other session
\* as they were: it changes, creates and removes none of them.
C18_SessionIsolation == [][C18_Step]_vars

\* Session 1 was finalized while session 2 holds a chunk: session 2 is still
\* there with its index and its chunk file.
C18_Witness ==
    /\ \E r \in DOMAIN finReqs : finReqs[r].uploadId = 1 /\ finReqs[r].status = 200
    /\ 2 \in DOMAIN sessionJson
    /\ sessionJson[2].uploadedChunks = <<0>>
    /\ <<2, 0>> \in DOMAIN chunkFiles

\* ------------------------------------------------------------------ C19
C19_Alive ==
    \A uploadId \in 1 .. created :
        Finalized(uploadId) = {}
            => /\ uploadId \in DOMAIN sessionJson
               /\ (resp.op = "status" /\ resp.uploadId = uploadId)
                     => resp.status = 200

C19_Grows ==
    \A uploadId \in DOMAIN sessionJson \cap DOMAIN sessionJson' :
        Range(sessionJson[uploadId].uploadedChunks)
            \subseteq Range(sessionJson'[uploadId].uploadedChunks)

\* C19: from init until a finalize of the session is answered 200, the
\* session is on disk and its status is answered 200, whatever chunk,
\* status and failed finalize requests came in between; and as long as the
\* session is there, every index in uploadedChunks stays in it.
C19_SessionStaysAndGrows ==
    /\ []C19_Alive
    /\ [][C19_Grows]_vars

\* A status answered 200, with the index uploaded before, after a finalize of
\* the session failed with 500 and another was refused with 400.
C19_Witness ==
    /\ resp.op = "status" /\ resp.status = 200 /\ resp.uploadedChunks = <<0>>
    /\ \E r \in DOMAIN finReqs :
          finReqs[r].uploadId = resp.uploadId /\ finReqs[r].status = 500
    /\ \E r \in DOMAIN finReqs :
          finReqs[r].uploadId = resp.uploadId /\ finReqs[r].status = 400

\* ------------------------------------------------------------------ C20
\* C20 as stated: in the client store the orders of the cards of each list
\* are exactly 0 .. k-1 for its k cards, and so are, once no request is in
\* flight, the positions of the rows of each list in the cards table.
C20_PositionsContiguous ==
    /\ \A i \in DOMAIN storeLists :
          LET cards == storeLists[i].cards
          IN  /\ {cards[j].order : j \in DOMAIN cards} = 0 .. Len(cards) - 1
              /\ \A j, k \in DOMAIN cards : j # k => cards[j].order # cards[k].order
    /\ fetches = {}
          => \A listId \in {dbCards[c].listId : c \in DOMAIN dbCards} :
                LET rows == {c \in DOMAIN dbCards : dbCards[c].listId = listId}
                IN  /\ {dbCards[c].position : c \in rows}
                           = 0 .. Cardinality(rows) - 1
                    /\ \A c, d \in rows :
                          c # d => dbCards[c].position # dbCards[d].position

\* ------------------------------------------------------------------ C23
\* C23 as stated: whatever the number and interleaving of the finalize
\* requests on a session, at most one attachment row is written for it and
\* at most one artifact of it is stored in the bucket.
C23_AtMostOneAttachment ==
    \A uploadId \in UploadIds :
        /\ Cardinality(AttachmentsOf(uploadId)) <= 1
        /\ Cardinality({r \in DOMAIN bucket :
                           finReqs[r].uploadId = uploadId}) <= 1

\* ------------------------------------------------------------------ C24
\* A step that removes session.json or a chunk file of a session is made for
\* a finalize request whose artifact is stored and whose row is inserted.
C24_Step ==
    \A uploadId \in UploadIds :
        (\/ uploadId \in DOMAIN sessionJson /\ uploadId \notin DOMAIN sessionJson'
         \/ \E k \in DOMAIN chunkFiles \ DOMAIN chunkFiles' : k[1] = uploadId)
        => \E r \in DOMAIN finReqs :
              /\ finReqs[r].uploadId = uploadId
              /\ finReqs[r].pc = "inserted"
              /\ finReqs'[r].pc = "done"
              /\ RowsOf(r) # {}
              /\ Resolves(finReqs[r].fileUrl)

\* A finalize that fails at the insert leaves session.json and the chunk
\* files as they are.
C24_Failure ==
    \A r \in DOMAIN finReqs :
        (/\ \/ finReqs[r].pc = "uploaded"
            \/ finReqs[r].pc = "merged" /\ ~supabase
         /\ finReqs'[r].pc = "done")
        => /\ finReqs'[r].status = 500
           /\ RowsOf(r)' = {}
           /\ UNCHANGED <<sessionJson, chunkFiles>>

\* No session is gone without an attachment row of it.
C24_NoOrphan ==
    \A uploadId \in 1 .. created :
        uploadId \notin DOMAIN sessionJson => AttachmentsOf(uploadId) # {}

\* C24: finalize removes the session and its chunks only after the artifact
\* is stored and the attachment row is inserted; no session is ever gone
\* while no attachment of it exists, and a failed insert leaves session.json
\* and the chunks in place.
C24_DeleteAfterPersist ==
    /\ [][C24_Step /\ C24_Failure]_vars
    /\ []C24_NoOrphan

\* Without the Blob Store, a first finalize failed (at the insert) and left
\* the session complete; a second one then succeeded and removed it.
C24_Witness ==
    /\ ~supabase
    /\ \E r1, r2 \in DOMAIN finReqs :
          /\ r1 < r2
          /\ finReqs[r1].uploadId = finReqs[r2].uploadId
          /\ finReqs[r1].status = 500 /\ RowsOf(r1) = {}
          /\ finReqs[r2].status = 200 /\ RowsOf(r2) # {}
          /\ finReqs[r2].fileSize = Num(15 * MiB)
          /\ finReqs[r2].uploadId \notin DOMAIN sessionJson

\* ------------------------------------------------------------------ C25
\* C25 as stated: an attachment row is written by finalize only for a session
\* whose expectedChunks is at least 1, and its artifact is not empty.
C25_NoEmptyArtifact ==
    \A i \in DOMAIN attachments :
        LET r == attachments[i].fileUrl.name
        IN  /\ Lt(Num(0), expectedChunksOf(finReqs[r].fileSize))
            /\ Resolves(attachments[i].fileUrl)
                  => Artifact(attachments[i].fileUrl) # <<>>

\* ------------------------------------------------------------------ C26
C26_Step ==
    \A cardId \in StoreCardIds, newListId \in StoreListIds \cup {GhostListId} :
        MoveCard(cardId, newListId) =>
            /\ StoreCardIds' = StoreCardIds
            /\ Cardinality({i \in DOMAIN storeLists' :
                  \E j \in DOMAIN storeLists'[i].cards :
                      storeLists'[i].cards[j].id = cardId}) = 1
            /\ \A i \in DOMAIN storeLists' :
                  Cardinality({j \in DOMAIN storeLists'[i].cards :
                      storeLists'[i].cards[j].id = cardId}) <= 1

\* C26 as stated: moveCard(cardId, newListId), for every card of the board
\* and every newListId, a list of the board or not, leaves the set of cards
\* of the board as it was, with the moved card in exactly one list.
C26_MoveKeepsCards == [][C26_Step]_vars

\* ------------------------------------------------------------------ C27
\* C27 as stated: every card held in a list's cards array has the id of that
\* list as its listId.
C27_ListIdMatchesHolder ==
    \A i \in DOMAIN storeLists :
        \A j \in DOMAIN storeLists[i].cards :
            storeLists[i].cards[j].listId = storeLists[i].id

\* ------------------------------------------------------------------ C28
\* C28 as stated, for the store's ids: when every request is answered and
\* every answer delivered, from some point on every list and every card of
\* the store carries an id given by the server.
C28_EventuallyPersisted ==
    <>[](/\ \A listId \in StoreListIds : ~listId.temp
         /\ \A cardId \in StoreCardIds : ~cardId.temp)

\* ------------------------------------------------------------------ C21
\* The render of a protected path.
C21_Step ==
    (/\ Render
     /\ pathname \in DOMAIN Routes
     /\ Routes[pathname].requiredRole # "")
    => /\ view' # "pending" =>
              /\ localUser.kind = "object"
              /\ localUser.role = Routes[pathname].requiredRole
              /\ view' = Routes[pathname].page
       /\ (localUser.kind # "object" \/ localUser.role = "") =>
              view' = "pending" /\ pathname' = "/login"
       /\ (/\ localUser.kind = "object"
           /\ localUser.role \notin {"", Routes[pathname].requiredRole}) =>
              view' = "pending" /\ pathname' # pathname

\* C21 as stated: a protected page is rendered only for a stored user whose
\* role is the route's required role; without a stored user, with one that
\* does not parse or has no role the browser is sent to /login, and with
\* another role it is sent away from the path.
C21_RoleValidated == [][C21_Step]_vars

\* C22.  change-password validates, hashes, then updates: a stored password
\* changes only in the update step of a change-password request whose
\* current password matched the hash that request read, whose new password
\* has at least 4 characters and which is answered 200, and it becomes the
\* hash of that new password; a request with a missing field or a new
\* password shorter than 4 characters is answered 400, one for an unknown
\* user 404, one with a wrong current password 401, and the step that gives
\* one of these answers leaves the users table as it was.
C22_Replaced ==
    \A u \in DOMAIN users :
        users'[u].password # users[u].password =>
            \E r \in DOMAIN authReqs :
                /\ authReqs[r].op = "change-password"
                /\ authReqs[r].pc = "hashing"
                /\ authReqs'[r].pc = "done" /\ authReqs'[r].status = 200
                /\ authReqs[r].userId = u
                /\ authReqs[r].read.bcrypt = authReqs[r].password
                /\ Len(authReqs[r].newPassword) >= 4
                /\ users'[u].password.bcrypt = authReqs[r].newPassword

C22_Refused ==
    Len(authReqs') = Len(authReqs) + 1 =>
        LET req == authReqs'[Len(authReqs')]
        IN  req.op = "change-password" =>
              /\ req.password = <<>> \/ req.newPassword = <<>>
                    \/ Len(req.newPassword) < 4
                    => req.status = 400
              /\ req.password # <<>> /\ Len(req.newPassword) >= 4
                    /\ req.userId \notin DOMAIN users
                    => req.status = 404
              /\ req.password # <<>> /\ Len(req.newPassword) >= 4
                    /\ req.userId \in DOMAIN users
                    /\ users[req.userId].password.bcrypt # req.password
                    => req.status = 401
              /\ req.status \in {400, 401, 404} \/ req.pc = "hashing"
              /\ users' = users

C22_Step == C22_Replaced /\ C22_Refused

C22_ValidateHashUpdate == [][C22_Step]_vars

\* A wrong current password was refused and a right one replaced the password.
C22_Witness ==
    \E r \in DOMAIN authReqs, q \in DOMAIN authReqs :
        /\ authReqs[r].op = "change-password" /\ authReqs[r].status = 200
        /\ users[authReqs[r].userId].password = bcryptHash(authReqs[r].newPassword)
        /\ authReqs[q].op = "change-password" /\ authReqs[q].status = 401

\* A successful change-password for the user, at any time.
passwordChanged(id) ==
    \E c \in DOMAIN authReqs :
        /\ authReqs[c].op = "change-password" /\ authReqs[c].userId = id
        /\ authReqs[c].pc = "hashing" \/ authReqs[c].status = 200

\* C29.  After a register has succeeded, a login with the same email string
\* and the same password succeeds and returns the registered user's id
\* (the password not having been changed).
C29_RoundTrip ==
    \A r \in DOMAIN authReqs, l \in DOMAIN authReqs :
        /\ authReqs[r].op = "register" /\ authReqs[r].status = 200
        /\ authReqs[l].op = "login"
        /\ authReqs[r].id <= authReqs[l].seen
        /\ authReqs[l].email = authReqs[r].email
        /\ authReqs[l].password = authReqs[r].password
        /\ ~passwordChanged(authReqs[r].id)
        => authReqs[l].status = 200 /\ authReqs[l].id = authReqs[r].id

\* C30.  client-login answers with a user of role client or with an error,
\* and for an email that belongs to an admin account it answers 403 and
\* creates no user.
C30_NeverAdmin ==
    \A c \in DOMAIN authReqs :
        authReqs[c].op = "client-login" =>
            /\ authReqs[c].status = 200 => authReqs[c].returned = "client"
            /\ (\E id \in 1 .. authReqs[c].seen :
                    /\ users[id].role = "admin"
                    /\ users[id].email = authReqs[c].email)
               => /\ authReqs[c].pc = "done" /\ authReqs[c].status = 403
                  /\ ~authReqs[c].inserted

====
